---- MODULE Spec2Model ----
(***************************************************************************)
(* Model of mcp-data-explorer: the host relay (host.ts: handleMessage,     *)
(* callTool), and the tool routes of the HTTP server (server/index.ts).    *)
(*                                                                         *)
(* JavaScript objects are records; a property that is absent (undefined)   *)
(* is a field that is not in the record's DOMAIN.  A message that is not   *)
(* an object is the record [primitive |-> ...].                            *)
(***************************************************************************)
EXTENDS Integers, Sequences, FiniteSets, TLC

\* ------------------------------------------------------------------ bounds

\* Number of message events delivered to the host window in one behaviour.
MaxEvents == 3

\* ------------------------------------------------------- program constants

\* host.ts: addLog keeps at most 30 entries.
LogCap == 30

\* host.ts: the error code of every error response.
ErrorCode == -32000

\* server: getFieldStats reports at most 50 unique values.
UniqueLimit == 50

\* server: query-data's default limit.
DefaultLimit == 100

\* host.ts: protocol version answered when the request names none.
DefaultProtocolVersion == "2025-11-21"

\* ------------------------------------------------------------------ values

\* The empty object {}.
EmptyObject == [k \in {} |-> k]

Has(obj, key) == key \in DOMAIN obj

\* A string value is the sequence of its characters; keys and identifiers
\* (dataset names, field names, methods, tool names) stay atomic strings.
\* Characters of the modelled strings, in UTF-16 code unit order.
Alphabet == << "\n", " ", "\"", ",", "-", ".",
               "0", "1", "2", "3", "4", "5", "6", "7", "8", "9", ":",
               "E", "I", "N", "O", "R", "W", "[", "\\", "]",
               "a", "c", "d", "e", "f", "g", "i", "l", "m", "n", "o", "p",
               "r", "s", "t", "u", "v", "w", "y", "{", "}" >>

CharCode(c) == CHOOSE i \in 1..Len(Alphabet) : Alphabet[i] = c

\* Values: number | string | null | undefined.  A finite number is held in
\* hundredths (v = 100 * the number), which is exact for the two-decimal
\* results the server computes.
Num(h) == [t |-> "number", v |-> h]
Whole(n) == Num(100 * n)
Infinity == [t |-> "Infinity"]
NegInfinity == [t |-> "-Infinity"]
NaN == [t |-> "NaN"]
Str(s) == [t |-> "string", v |-> s]
Null == [t |-> "null"]
Undefined == [t |-> "undefined"]

\* row[field]: the value of the property, undefined when the row lacks it.
Get(row, field) == IF field \in DOMAIN row THEN row[field] ELSE Undefined

\* A property name taken from the arguments: an absent one is the key
\* "undefined" when used as row[key].
KeyArg(args, key) == IF Has(args, key) THEN args[key] ELSE "undefined"

Digit(d) == Alphabet[CharCode("0") + d]

RECURSIVE Digits(_)
Digits(n) == IF n < 10 THEN << Digit(n) >> ELSE Digits(n \div 10) \o << Digit(n % 10) >>

\* String(x) of a finite number held in hundredths: "12", "12.5", "-0.25".
NumberToString(h) ==
  LET a == IF h < 0 THEN -h ELSE h
      sign == IF h < 0 THEN << "-" >> ELSE << >>
      frac == a % 100
  IN sign \o Digits(a \div 100) \o
     (IF frac = 0 THEN << >>
      ELSE IF frac % 10 = 0 THEN << ".", Digit(frac \div 10) >>
      ELSE << ".", Digit(frac \div 10), Digit(frac % 10) >>)

\* An array of scalars (a filter's value can be one).
Arr(elems) == [t |-> "array", v |-> elems]

\* String(x); of an array, its elements joined by "," with null and
\* undefined written as "".
RECURSIVE StringOf(_)
StringOf(x) ==
  CASE x.t = "string" -> x.v
    [] x.t = "number" -> NumberToString(x.v)
    [] x.t = "null" -> << "n", "u", "l", "l" >>
    [] x.t = "undefined" -> << "u", "n", "d", "e", "f", "i", "n", "e", "d" >>
    [] x.t = "Infinity" -> << "I", "n", "f", "i", "n", "i", "t", "y" >>
    [] x.t = "-Infinity" -> << "-", "I", "n", "f", "i", "n", "i", "t", "y" >>
    [] x.t = "NaN" -> << "N", "a", "N" >>
    [] x.t = "array" ->
         IF x.v = << >> THEN << >>
         ELSE LET h == IF Head(x.v).t \in {"null", "undefined"} THEN << >>
                       ELSE StringOf(Head(x.v))
              IN IF Len(x.v) = 1 THEN h
                 ELSE h \o << "," >> \o StringOf(Arr(Tail(x.v)))

IsDigit(c) == CharCode(c) >= CharCode("0") /\ CharCode(c) <= CharCode("9")

RECURSIVE DigitsValue(_)
DigitsValue(s) ==
  IF s = << >> THEN 0
  ELSE 10 * DigitsValue(SubSeq(s, 1, Len(s) - 1)) + (CharCode(s[Len(s)]) - CharCode("0"))

\* The white space String.prototype.trim and Number(...) strip.
IsSpace(c) == c \in {" ", "\n"}

RECURSIVE TrimStart(_)
TrimStart(s) == IF s # << >> /\ IsSpace(Head(s)) THEN TrimStart(Tail(s)) ELSE s

RECURSIVE TrimEnd(_)
TrimEnd(s) ==
  IF s # << >> /\ IsSpace(s[Len(s)]) THEN TrimEnd(SubSeq(s, 1, Len(s) - 1)) ELSE s

AllDigits(s) == \A i \in 1..Len(s) : IsDigit(s[i])

RECURSIVE Power10(_)
Power10(e) == IF e = 0 THEN 1 ELSE 10 * Power10(e - 1)

\* The value, in hundredths, of the decimal literal int "." frac (both runs
\* of digits); the literals of the universe have at most two decimals.
DecimalValue(int, frac) ==
  LET f2 == SubSeq(frac \o << "0", "0" >>, 1, 2)
  IN 100 * DigitsValue(int) + DigitsValue(f2)

\* The first index of s that holds one of chars, Len(s) + 1 when none does.
FirstIndex(s, chars) ==
  IF \E i \in 1..Len(s) : s[i] \in chars
  THEN CHOOSE i \in 1..Len(s) : s[i] \in chars /\ \A j \in 1..(i - 1) : s[j] \notin chars
  ELSE Len(s) + 1

\* The value of digits[.digits] with exponent digits: int and frac are the
\* runs before and after the dot, exp the run after e (or "0").
StrDecimalValue(int, frac, exp) ==
  IF /\ AllDigits(int) /\ AllDigits(frac) /\ Len(int) + Len(frac) > 0
     /\ exp # << >> /\ AllDigits(exp)
  THEN Num(DecimalValue(int, frac) * Power10(DigitsValue(exp)))
  ELSE NaN

\* The mantissa split at its first dot, at index dot.
StrMantissa(mant, exp, dot) ==
  StrDecimalValue(SubSeq(mant, 1, dot - 1), SubSeq(mant, dot + 1, Len(mant)), exp)

\* The literal split at its first e or E, at index e.
StrExponent(body, e) ==
  StrMantissa(SubSeq(body, 1, e - 1),
              IF e > Len(body) THEN << "0" >> ELSE SubSeq(body, e + 1, Len(body)),
              FirstIndex(SubSeq(body, 1, e - 1), {"."}))

\* StrUnsignedDecimalLiteral: Infinity, or digits[.digits][(e|E)digits].
StrUnsignedDecimalLiteral(body) ==
  IF body = << "I", "n", "f", "i", "n", "i", "t", "y" >> THEN Infinity
  ELSE StrExponent(body, FirstIndex(body, {"e", "E"}))

\* -x of a number.
Negated(x) ==
  CASE x.t = "number" -> Num(-x.v)
    [] x.t = "Infinity" -> NegInfinity
    [] OTHER -> x

\* The numeric value of a trimmed string: "" is 0, a leading "-" negates.
StrNumericLiteral(t) ==
  IF t = << >> THEN Whole(0)
  ELSE IF t[1] = "-" THEN Negated(StrUnsignedDecimalLiteral(Tail(t)))
  ELSE StrUnsignedDecimalLiteral(t)

\* Number(s) of a string over Alphabet (StringToNumber of ECMA-262): white
\* space is trimmed; "" is 0; [-]Infinity; a decimal literal
\* [-]digits[.digits][(e|E)digits]; any other string met here is NaN (no
\* string of the records or of the arguments has a signed exponent).
StringToNumber(s) == StrNumericLiteral(TrimEnd(TrimStart(s)))

\* Number(x)
ToNumber(x) ==
  CASE x.t \in {"string", "array"} -> StringToNumber(StringOf(x))
    [] x.t = "null" -> Whole(0)
    [] x.t = "undefined" -> NaN
    [] OTHER -> x

\* JSON.stringify of a value: a non-finite number and (inside an array)
\* undefined are written as null.
JsonValue(x) ==
  IF x.t \in {"Infinity", "-Infinity", "NaN", "undefined"} THEN Null ELSE x

\* ----------------------------------------------------------------- JSON text

\* The characters of the property names of the records.
KeyChars(key) ==
  CASE key = "region" -> << "r", "e", "g", "i", "o", "n" >>
    [] key = "revenue" -> << "r", "e", "v", "e", "n", "u", "e" >>
    [] key = "city" -> << "c", "i", "t", "y" >>
    [] key = "temp" -> << "t", "e", "m", "p" >>
    [] key = "note" -> << "n", "o", "t", "e" >>
    [] key = "net" -> << "n", "e", "t" >>

FieldNames == {"region", "revenue", "city", "temp", "note", "net"}

\* Array.prototype.join(sep) of an array of strings.
RECURSIVE JoinWith(_, _)
JoinWith(parts, sep) ==
  IF parts = << >> THEN << >>
  ELSE IF Len(parts) = 1 THEN parts[1]
  ELSE parts[1] \o sep \o JoinWith(Tail(parts), sep)

\* JSON.stringify of a string: quoted, with the quote, the backslash and the
\* line feed escaped.
RECURSIVE Escaped(_)
Escaped(s) ==
  IF s = << >> THEN << >>
  ELSE (CASE Head(s) = "\"" -> << "\\", "\"" >>
          [] Head(s) = "\\" -> << "\\", "\\" >>
          [] Head(s) = "\n" -> << "\\", "n" >>
          [] OTHER -> << Head(s) >>) \o Escaped(Tail(s))

Quote(s) == << "\"" >> \o Escaped(s) \o << "\"" >>

\* Mutant of JsonScalar: a number is written without its fraction.
JsonScalarWhole(x) ==
  CASE x.t = "string" -> Quote(x.v)
    [] x.t = "number" -> NumberToString(x.v - (x.v % 100))
    [] OTHER -> << "n", "u", "l", "l" >>

\* JSON.stringify of a scalar.
JsonScalar(x) ==
  CASE x.t = "string" -> Quote(x.v)
    [] x.t = "number" -> NumberToString(x.v)
    [] OTHER -> << "n", "u", "l", "l" >>

\* JSON.stringify(data, null, 2) of an array of records: one property a
\* line, indented by two spaces a level.  `keys` is the order of the
\* properties of a record (the order of insertion).
JsonStringify(data, keys) ==
  LET property(row, key) ==
        << " ", " ", " ", " " >> \o Quote(KeyChars(key)) \o << ":", " " >>
          \o JsonScalar(row[key])
      object(row) ==
        LET own == SelectSeq(keys, LAMBDA key : key \in DOMAIN row)
        IN IF own = << >> THEN << " ", " ", "{", "}" >>
           ELSE << " ", " ", "{", "\n" >>
                \o JoinWith([j \in 1..Len(own) |-> property(row, own[j])], << ",", "\n" >>)
                \o << "\n", " ", " ", "}" >>
  IN IF data = << >> THEN << "[", "]" >>
     ELSE << "[", "\n" >>
          \o JoinWith([i \in 1..Len(data) |-> object(data[i])], << ",", "\n" >>)
          \o << "\n", "]" >>

\* JSON.parse of the text of an array of records with scalar values.

RECURSIVE SkipSpace(_, _)
SkipSpace(s, i) == IF i <= Len(s) /\ IsSpace(s[i]) THEN SkipSpace(s, i + 1) ELSE i

\* A string literal from the character after its opening quote: the string
\* and the index after the closing quote.
RECURSIVE StringBody(_, _, _)
StringBody(s, i, acc) ==
  IF s[i] = "\"" THEN [value |-> acc, next |-> i + 1]
  ELSE IF s[i] = "\\"
  THEN StringBody(s, i + 2, Append(acc, IF s[i + 1] = "n" THEN "\n" ELSE s[i + 1]))
  ELSE StringBody(s, i + 1, Append(acc, s[i]))

\* The index after the number literal that starts at i.
RECURSIVE NumberEnd(_, _)
NumberEnd(s, i) ==
  IF i <= Len(s) /\ (s[i] \in {"-", "."} \/ IsDigit(s[i])) THEN NumberEnd(s, i + 1) ELSE i

ParseScalar(s, i) ==
  IF s[i] = "\""
  THEN LET r == StringBody(s, i + 1, << >>) IN [value |-> Str(r.value), next |-> r.next]
  ELSE IF s[i] = "n" THEN [value |-> Null, next |-> i + 4]
  ELSE [value |-> StringToNumber(SubSeq(s, i, NumberEnd(s, i) - 1)), next |-> NumberEnd(s, i)]

\* The property name with these characters.
FieldName(chars) == CHOOSE key \in FieldNames : KeyChars(key) = chars

\* The members of an object from the first token after "{" or ",".
RECURSIVE ParseMembers(_, _, _)
ParseMembers(s, i, acc) ==
  IF s[i] = "}" THEN [value |-> acc, next |-> i + 1]
  ELSE LET key == StringBody(s, i + 1, << >>)
           colon == SkipSpace(s, key.next)
           val == ParseScalar(s, SkipSpace(s, colon + 1))
           n == SkipSpace(s, val.next)
           grown == (FieldName(key.value) :> val.value) @@ acc
       IN IF s[n] = "," THEN ParseMembers(s, SkipSpace(s, n + 1), grown)
          ELSE ParseMembers(s, n, grown)

\* The elements of an array from the first token after "[" or ",".
RECURSIVE ParseElements(_, _, _)
ParseElements(s, i, acc) ==
  IF s[i] = "]" THEN acc
  ELSE LET obj == ParseMembers(s, SkipSpace(s, i + 1), EmptyObject)
           n == SkipSpace(s, obj.next)
       IN IF s[n] = "," THEN ParseElements(s, SkipSpace(s, n + 1), Append(acc, obj.value))
          ELSE ParseElements(s, n, Append(acc, obj.value))

JsonParse(s) == ParseElements(s, SkipSpace(s, SkipSpace(s, 1) + 1), << >>)

\* ------------------------------------------------------------ query engine

\* Mutant of StableSort: elements that compare equal come out in reverse
\* order.
StableSortTiesReversed(seq, before) ==
  LET n == Len(seq)
      pos(i) == Cardinality({j \in 1..n : << j, i >> \in before})
                + Cardinality({j \in (i + 1)..n :
                                 << j, i >> \notin before /\ << i, j >> \notin before})
                + 1
  IN [p \in 1..n |-> seq[CHOOSE i \in 1..n : pos(i) = p]]

\* Array.prototype.sort with a comparator that is a strict weak order: the
\* stable sort of seq (equal elements keep their order).  `before` holds the
\* pairs << i, j >> of indices for which the comparator puts seq[i] before
\* seq[j].
StableSort(seq, before) ==
  LET n == Len(seq)
      pos(i) == Cardinality({j \in 1..n : << j, i >> \in before})
                + Cardinality({j \in 1..(i - 1) :
                                 << j, i >> \notin before /\ << i, j >> \notin before})
                + 1
  IN [p \in 1..n |-> seq[CHOOSE i \in 1..n : pos(i) = p]]

\* The index pairs of seq
Pairs(seq) == (1..Len(seq)) \X (1..Len(seq))

\* s1 < s2 for strings: by UTF-16 code units.
RECURSIVE StrLess(_, _)
StrLess(s1, s2) ==
  IF s2 = << >> THEN FALSE
  ELSE IF s1 = << >> THEN TRUE
  ELSE IF s1[1] # s2[1] THEN CharCode(s1[1]) < CharCode(s2[1])
  ELSE StrLess(Tail(s1), Tail(s2))

\* The elements of seq without repetition, in order of first occurrence
\* (the iteration order of a Set or of a Map's keys).
Distinct(seq) ==
  LET first == {i \in 1..Len(seq) : \A j \in 1..(i - 1) : seq[j] # seq[i]}
  IN [p \in 1..Cardinality(first) |->
        seq[CHOOSE i \in first : Cardinality({j \in first : j < i}) = p - 1]]

\* String.prototype.toLowerCase over Alphabet.
ToLowerCase(s) ==
  [i \in 1..Len(s) |->
     CASE s[i] = "E" -> "e" [] s[i] = "I" -> "i" [] s[i] = "N" -> "n"
       [] s[i] = "O" -> "o" [] s[i] = "R" -> "r" [] s[i] = "W" -> "w"
       [] OTHER -> s[i]]

\* String.prototype.includes(search): search occurs somewhere in s.
Includes(s, search) ==
  \E i \in 0..(Len(s) - Len(search)) : SubSeq(s, i + 1, i + Len(search)) = search

\* a === b; two arrays are the same only when they are one object, which a
\* value parsed from the request and a value of a record never are.
StrictEquals(a, b) == a.t \notin {"NaN", "array"} /\ a = b

\* x < y for numbers, infinite ones included (neither is NaN).
NumLess(x, y) ==
  CASE x.t = "Infinity" -> FALSE
    [] y.t = "-Infinity" -> FALSE
    [] x.t = "-Infinity" -> TRUE
    [] y.t = "Infinity" -> TRUE
    [] OTHER -> x.v < y.v

\* ToPrimitive with hint number: an array becomes its string.
ToPrimitive(x) == IF x.t = "array" THEN Str(StringOf(x)) ELSE x

\* IsLessThan of ECMA-262 both ways, for the primitives pa and pb whose
\* numbers are na and nb: two strings compare by code units, anything else
\* as numbers, and a comparison with NaN is undefined.
IsLessThan(pa, pb, na, nb) ==
  IF pa.t = "string" /\ pb.t = "string"
  THEN (IF StrLess(pa.v, pb.v) THEN "less"
        ELSE IF StrLess(pb.v, pa.v) THEN "greater" ELSE "equal")
  ELSE IF na.t = "NaN" \/ nb.t = "NaN" THEN "undefined"
  ELSE IF NumLess(na, nb) THEN "less"
  ELSE IF NumLess(nb, na) THEN "greater" ELSE "equal"

ComparePrimitives(pa, pb) == IsLessThan(pa, pb, ToNumber(pa), ToNumber(pb))

\* How a and b compare: "less", "greater", "equal" or "undefined".
Compare(a, b) == ComparePrimitives(ToPrimitive(a), ToPrimitive(b))

\* The relational operators a < b, a > b, a <= b, a >= b; each is false when
\* the comparison is undefined.
Comparable(a, b) == Compare(a, b) # "undefined"
LessThan(a, b) == Compare(a, b) = "less"
GreaterThan(a, b) == Compare(a, b) = "greater"
LessOrEqual(a, b) == Compare(a, b) \in {"less", "equal"}
GreaterOrEqual(a, b) == Compare(a, b) \in {"greater", "equal"}

\* Mutant of OperatorTest: a filter with an operator outside the list fails.
OperatorTestStrict(operator, value, fv, compared) ==
  LET Bool(b) == IF b THEN "pass" ELSE "fail"
  IN CASE operator = "eq" -> Bool(StrictEquals(value, fv))
       [] operator = "ne" -> Bool(~StrictEquals(value, fv))
       [] operator = "gt" -> Bool(compared = "greater")
       [] operator = "gte" -> Bool(compared \in {"greater", "equal"})
       [] operator = "lt" -> Bool(compared = "less")
       [] operator = "lte" -> Bool(compared \in {"less", "equal"})
       [] operator = "contains" ->
            Bool(Includes(ToLowerCase(StringOf(value)), ToLowerCase(StringOf(fv))))
       [] operator = "in" ->
            IF fv.t = "array"
            THEN Bool(\E i \in 1..Len(fv.v) : fv.v[i] = value)
            ELSE IF fv.t = "string" THEN Bool(Includes(fv.v, StringOf(value)))
            ELSE "throw"
       [] OTHER -> "fail"

\* The switch of applyFilters on the operator, for the value of the row, the
\* value of the filter and the way the two compare: "pass", "fail", or
\* "throw" when operator `in` has a value without an includes method.
OperatorTest(operator, value, fv, compared) ==
  LET Bool(b) == IF b THEN "pass" ELSE "fail"
  IN CASE operator = "eq" -> Bool(StrictEquals(value, fv))
       [] operator = "ne" -> Bool(~StrictEquals(value, fv))
       [] operator = "gt" -> Bool(compared = "greater")
       [] operator = "gte" -> Bool(compared \in {"greater", "equal"})
       [] operator = "lt" -> Bool(compared = "less")
       [] operator = "lte" -> Bool(compared \in {"less", "equal"})
       [] operator = "contains" ->
            Bool(Includes(ToLowerCase(StringOf(value)), ToLowerCase(StringOf(fv))))
       [] operator = "in" ->
            \* Array.prototype.includes (SameValueZero), or
            \* String.prototype.includes when the value is a string
            IF fv.t = "array"
            THEN Bool(\E i \in 1..Len(fv.v) : fv.v[i] = value)
            ELSE IF fv.t = "string" THEN Bool(Includes(fv.v, StringOf(value)))
            ELSE "throw"
       [] OTHER -> "pass"

\* const value = row[filter.field], and the filter's value.
TestValues(operator, value, fv) == OperatorTest(operator, value, fv, Compare(value, fv))

\* The body of the callback of filters.every for one filter and one row:
\* "pass", "fail", or "throw" when the test throws a TypeError (the filter is
\* null, or operator `in` has a value without an includes method).
FilterTest(row, filter) ==
  IF filter = Null THEN "throw"
  ELSE TestValues(KeyArg(filter, "operator"), Get(row, KeyArg(filter, "field")),
                  Get(filter, "value"))

\* The outcome of the first test that does not pass, "pass" when all do.
FirstNotPassed(outcomes) ==
  IF \A i \in 1..Len(outcomes) : outcomes[i] = "pass" THEN "pass"
  ELSE outcomes[CHOOSE i \in 1..Len(outcomes) :
                  /\ outcomes[i] # "pass"
                  /\ \A j \in 1..(i - 1) : outcomes[j] = "pass"]

\* filters.every(...) on one row: the filters are tested in order up to the
\* first that fails or throws.
every(row, filters) ==
  FirstNotPassed([i \in 1..Len(filters) |-> FilterTest(row, filters[i])])

Returned(value) == [threw |-> FALSE, value |-> value]
Thrown == [threw |-> TRUE]

\* The elements of data whose outcome is "pass", in order.
RECURSIVE Passing(_, _)
Passing(data, outcomes) ==
  IF data = << >> THEN << >>
  ELSE (IF Head(outcomes) = "pass" THEN << Head(data) >> ELSE << >>)
       \o Passing(Tail(data), Tail(outcomes))

\* data.filter(callback), given the outcome of the callback on each row: it
\* throws when a callback throws.
ArrayFilter(data, outcomes) ==
  IF \E i \in 1..Len(outcomes) : outcomes[i] = "throw" THEN Thrown
  ELSE Returned(Passing(data, outcomes))

\* Mutant of applyFilters: only the first filter of the list is tested.
applyFiltersFirstOnly(data, filters) ==
  IF filters.t # "array"
  THEN IF data = << >> THEN Returned(<< >>) ELSE Thrown
  ELSE IF filters.v = << >> THEN Returned(data)
  ELSE ArrayFilter(data, [i \in 1..Len(data) |-> FilterTest(data[i], filters.v[1])])

\* applyFilters: data.filter(row => filters.every(...)).  `filters` is the
\* value received: an array of filters, or something without an every method,
\* which throws at the first row.
applyFilters(data, filters) ==
  IF filters.t # "array"
  THEN IF data = << >> THEN Returned(<< >>) ELSE Thrown
  ELSE ArrayFilter(data, [i \in 1..Len(data) |-> every(data[i], filters.v)])

\* String.prototype.localeCompare with the default locale (ICU root
\* collation) over Alphabet: white space, punctuation, digits, letters; the
\* strings compare by these primary weights first, and strings that differ
\* in case only compare lower case first.
CollationOrder ==
  << "\n", " ", "-", ",", ":", ".", "\"", "[", "]", "{", "}", "\\",
     "0", "1", "2", "3", "4", "5", "6", "7", "8", "9",
     "a", "c", "d", "e", "f", "g", "i", "l", "m", "n", "o", "p", "r", "s", "t",
     "u", "v", "w", "y" >>

PrimaryWeights(s) ==
  LET low == ToLowerCase(s)
  IN [i \in 1..Len(s) |->
        CHOOSE w \in 1..Len(CollationOrder) : CollationOrder[w] = low[i]]

\* The lexicographic order of two sequences of weights.
RECURSIVE WeightsLess(_, _)
WeightsLess(w1, w2) ==
  IF w2 = << >> THEN FALSE
  ELSE IF w1 = << >> THEN TRUE
  ELSE IF w1[1] # w2[1] THEN w1[1] < w2[1]
  ELSE WeightsLess(Tail(w1), Tail(w2))

localeCompare(a, b) ==
  LET wa == PrimaryWeights(a)
      wb == PrimaryWeights(b)
      \* where the strings differ, for strings of equal primary weights
      diff == {i \in 1..Len(a) : a[i] # b[i]}
      first == CHOOSE i \in diff : \A j \in diff : i <= j
  IN IF WeightsLess(wa, wb) THEN -1
     ELSE IF WeightsLess(wb, wa) THEN 1
     ELSE IF diff = {} THEN 0
     ELSE IF ToLowerCase(<< a[first] >>) = << a[first] >> THEN -1 ELSE 1

\* Array.prototype.sort(comparefn) as V8 (the engine of Node.js) runs it on an
\* array shorter than 64: the whole array is one run of TimSort.  `compare`
\* maps a pair << x, y >> of elements to comparefn(x, y).

\* CountAndMakeRun: the length of the run that starts the array, which is
\* strictly descending when comparefn(arr[2], arr[1]) < 0 and non-descending
\* otherwise.
RunLength(arr, compare) ==
  LET descending == compare[<< arr[2], arr[1] >>] < 0
      continues(i) == IF descending THEN compare[<< arr[i], arr[i - 1] >>] < 0
                      ELSE compare[<< arr[i], arr[i - 1] >>] >= 0
  IN CHOOSE r \in 2..Len(arr) :
       /\ \A i \in 3..r : continues(i)
       /\ r = Len(arr) \/ ~continues(r + 1)

\* ReverseRange over the first n elements.
ReverseRange(arr, n) ==
  [i \in 1..Len(arr) |-> IF i <= n THEN arr[n + 1 - i] ELSE arr[i]]

\* The binary search of BinaryInsertionSort for the place of pivot in
\* arr[left .. right - 1].
RECURSIVE InsertionPoint(_, _, _, _, _)
InsertionPoint(arr, pivot, left, right, compare) ==
  IF left >= right THEN left
  ELSE LET mid == left + ((right - left) \div 2)
       IN IF compare[<< pivot, arr[mid] >>] < 0
          THEN InsertionPoint(arr, pivot, left, mid, compare)
          ELSE InsertionPoint(arr, pivot, mid + 1, right, compare)

\* BinaryInsertionSort: arr[1 .. start - 1] is sorted; the elements from
\* start on are inserted one after the other.
RECURSIVE BinaryInsertionSort(_, _, _)
BinaryInsertionSort(arr, start, compare) ==
  IF start > Len(arr) THEN arr
  ELSE LET pivot == arr[start]
           at == InsertionPoint(arr, pivot, 1, start, compare)
           moved == SubSeq(arr, 1, at - 1) \o << pivot >>
                    \o SubSeq(arr, at, start - 1) \o SubSeq(arr, start + 1, Len(arr))
       IN BinaryInsertionSort(moved, start + 1, compare)

ArraySort(arr, compare) ==
  IF Len(arr) < 2 THEN arr
  ELSE LET run == RunLength(arr, compare)
           made == IF compare[<< arr[2], arr[1] >>] < 0 THEN ReverseRange(arr, run)
                   ELSE arr
       IN BinaryInsertionSort(made, run + 1, compare)

\* The comparator of sortData for the rows a and b.
sortCompare(a, b, sort) ==
  LET aVal == Get(a, KeyArg(sort, "field"))
      bVal == Get(b, KeyArg(sort, "field"))
      comparison == IF aVal.t = "string" /\ bVal.t = "string"
                    THEN localeCompare(aVal.v, bVal.v)
                    ELSE IF LessThan(aVal, bVal) THEN -1 ELSE 1
  IN IF StrictEquals(aVal, bVal) THEN 0
     ELSE IF Has(sort, "direction") /\ sort.direction = "asc" THEN comparison
     ELSE -comparison

\* sortData: [...data].sort(comparator); the copy is sorted and returned,
\* `data` itself is left as it is.
sortData(data, sort) ==
  LET elems == {data[i] : i \in 1..Len(data)}
  IN ArraySort(data, [p \in elems \X elems |-> sortCompare(p[1], p[2], sort)])

\* values.reduce((a, b) => a + b, 0) over finite numbers, in hundredths.
RECURSIVE SumOf(_)
SumOf(hs) == IF hs = << >> THEN 0 ELSE Head(hs) + SumOf(Tail(hs))

\* Math.min(...values) / Math.max(...values) over finite numbers.
MathMin(hs) ==
  IF hs = << >> THEN Infinity
  ELSE Num(CHOOSE m \in {hs[i] : i \in 1..Len(hs)} :
             \A i \in 1..Len(hs) : m <= hs[i])

MathMax(hs) ==
  IF hs = << >> THEN NegInfinity
  ELSE Num(CHOOSE m \in {hs[i] : i \in 1..Len(hs)} :
             \A i \in 1..Len(hs) : m >= hs[i])

\* Mutant of RoundedQuotient: the quotient is cut off after two decimals.
TruncatedQuotient(sum, count) ==
  IF count = 0 THEN NaN
  ELSE Num(IF sum >= 0 THEN sum \div count ELSE -((-sum) \div count))

\* Math.round((sum / count) * 100) / 100 in hundredths: the quotient rounded
\* to the nearest hundredth, a half rounded up; 0 / 0 is NaN.
RoundedQuotient(sum, count) ==
  IF count = 0 THEN NaN
  ELSE Num((2 * sum + count) \div (2 * count))

\* getUniqueValues: the distinct values of the field in order of first
\* occurrence, then Array.prototype.sort() without comparator: by the string
\* form of the elements, undefined last.
getUniqueValues(data, field) ==
  LET unique == Distinct([i \in 1..Len(data) |-> Get(data[i], field)])
      Less(a, b) == IF a.t = "undefined" THEN FALSE
                    ELSE IF b.t = "undefined" THEN TRUE
                    ELSE StrLess(StringOf(a), StringOf(b))
  IN StableSort(unique, {ij \in Pairs(unique) : Less(unique[ij[1]], unique[ij[2]])})

\* getFieldStats
getFieldStats(data, field, type) ==
  IF type = "number" THEN
    LET nums == [i \in 1..Len(data) |-> ToNumber(Get(data[i], field))]
        kept == SelectSeq(nums, LAMBDA x : x.t # "NaN")
        values == [i \in 1..Len(kept) |-> kept[i].v]
    IN [min |-> MathMin(values),
        max |-> MathMax(values),
        avg |-> RoundedQuotient(SumOf(values), Len(values))]
  ELSE IF type = "string" THEN
    LET unique == getUniqueValues(data, field)
    IN [uniqueCount |-> Len(unique),
        values |-> SubSeq(unique, 1, IF Len(unique) < UniqueLimit THEN Len(unique) ELSE UniqueLimit)]
  ELSE EmptyObject

\* Mutant of aggregateData: the map of groups is keyed by the value of the
\* groupBy field itself, not by its string form.
aggregateDataByValue(data, groupBy, metric, operation) ==
  LET keyOf(row) == Get(row, groupBy)
      metricOf(row) == LET x == ToNumber(Get(row, metric))
                       IN IF x.t = "NaN" THEN 0 ELSE x.v
      keys == Distinct([i \in 1..Len(data) |-> keyOf(data[i])])
      valuesOf(key) ==
        LET members == SelectSeq(data, LAMBDA row : keyOf(row) = key)
        IN [i \in 1..Len(members) |-> metricOf(members[i])]
      valueOf(values) ==
        CASE operation = "sum" -> Num(SumOf(values))
          [] operation = "avg" -> RoundedQuotient(SumOf(values), Len(values))
          [] operation = "count" -> Whole(Len(values))
          [] operation = "min" -> MathMin(values)
          [] operation = "max" -> MathMax(values)
          [] OTHER -> Whole(0)
      results == [i \in 1..Len(keys) |->
                    [group |-> StringOf(keys[i]), value |-> valueOf(valuesOf(keys[i]))]]
      Less(a, b) == a.value.v > b.value.v
  IN StableSort(results, {ij \in Pairs(results) : Less(results[ij[1]], results[ij[2]])})

\* aggregateData
aggregateData(data, groupBy, metric, operation) ==
  LET keyOf(row) == StringOf(Get(row, groupBy))
      \* Number(row[metric]) || 0
      metricOf(row) == LET x == ToNumber(Get(row, metric))
                       IN IF x.t = "NaN" THEN 0 ELSE x.v
      keys == Distinct([i \in 1..Len(data) |-> keyOf(data[i])])
      valuesOf(key) ==
        LET rows == SelectSeq(data, LAMBDA row : keyOf(row) = key)
        IN [i \in 1..Len(rows) |-> metricOf(rows[i])]
      valueOf(values) ==
        CASE operation = "sum" -> Num(SumOf(values))
          [] operation = "avg" -> RoundedQuotient(SumOf(values), Len(values))
          [] operation = "count" -> Whole(Len(values))
          [] operation = "min" -> MathMin(values)
          [] operation = "max" -> MathMax(values)
          [] OTHER -> Whole(0)
      results == [i \in 1..Len(keys) |->
                    [group |-> keys[i], value |-> valueOf(valuesOf(keys[i]))]]
      \* results.sort((a, b) => b.value - a.value)
      Less(a, b) == a.value.v > b.value.v
  IN StableSort(results, {ij \in Pairs(results) : Less(results[ij[1]], results[ij[2]])})

\* ------------------------------------------------------------ server store

\* The parsed content of the dataset files read at start-up.  A schema is the
\* ordered list of its fields (Object.keys order), data the ordered records.
DatasetFiles ==
  << [name |-> "sales", description |-> "Sales",
      schema |-> << [field |-> "region", type |-> "string"],
                    [field |-> "revenue", type |-> "number"] >>,
      data |-> << [region |-> Str(<< "W" >>), revenue |-> Whole(10)],
                  [region |-> Str(<< "E" >>), revenue |-> Whole(5)],
                  [region |-> Str(<< "W" >>), revenue |-> Whole(7)] >>],
     [name |-> "weather", description |-> "Weather",
      schema |-> << [field |-> "city", type |-> "string"],
                    [field |-> "temp", type |-> "number"] >>,
      data |-> << [city |-> Str(<< "O" >>), temp |-> Whole(-3)],
                  [city |-> Str(<< "R" >>), temp |-> Whole(18)] >>] >>

\* Map.set(name, dataset): a new key is appended in insertion order, an
\* existing key keeps its position and takes the new value.
MapSet(map, ds) ==
  IF \E i \in 1..Len(map) : map[i].name = ds.name
  THEN [i \in 1..Len(map) |-> IF map[i].name = ds.name THEN ds ELSE map[i]]
  ELSE Append(map, ds)

RECURSIVE loadFrom(_, _)
loadFrom(files, map) ==
  IF files = <<>> THEN map
  ELSE loadFrom(Tail(files), MapSet(map, Head(files)))

\* loadDatasets(): every file that parses is put in the map under its name.
loadDatasets == loadFrom(DatasetFiles, <<>>)

\* datasets.has(name) / datasets.get(name); an absent name is never a key.
MapHas(map, key) == \E i \in 1..Len(map) : map[i].name = key
MapGet(map, key) == map[CHOOSE i \in 1..Len(map) : map[i].name = key]

\* ------------------------------------------------------------ tool routes

\* The text of an envelope is JSON.stringify(payload); it is held as the JSON
\* document it denotes (numbers that JSON cannot write are already null).
\* Counts (recordCount, totalCount, offset, limit) are plain integers.
\* The arguments are an object with the optional properties dataset,
\* filters (a tagged value), sort (an object or a tagged value), limit and
\* offset (integers), groupBy, metric, operation and format (strings).

Envelope(payload) == [content |-> << [type |-> "text", text |-> payload] >>]

\* Mutant of NotFoundEnvelope: the envelope lacks isError.
NotFoundWithoutFlag ==
  [content |-> << [type |-> "text", text |-> [error |-> "Dataset not found"]] >>]

\* res.json({ content: [...{ error: 'Dataset not found' }], isError: true })
NotFoundEnvelope ==
  [content |-> << [type |-> "text", text |-> [error |-> "Dataset not found"]] >>,
   isError |-> TRUE]

\* const dataset = datasets.get(datasetName); if (!dataset) ...
\* An argument object without `dataset` looks up undefined, which is no key.
DatasetFound(map, args) == Has(args, "dataset") /\ MapHas(map, args.dataset)

\* What a route hands back: the JSON body and, for the record, the query
\* engine functions it called.
Served(body, engine) == [json |-> TRUE, body |-> body, engine |-> engine]

\* Mutant of ListDatasets: the last dataset of the map is left out.
ListDatasetsButLast(map, args) ==
  Served(Envelope([i \in 1..(Len(map) - 1) |->
                     [name |-> map[i].name,
                      description |-> map[i].description,
                      recordCount |-> Len(map[i].data),
                      columns |-> [j \in 1..Len(map[i].schema) |-> map[i].schema[j].field]]]),
         {})

\* POST /api/tools/list-datasets
ListDatasets(map, args) ==
  Served(Envelope([i \in 1..Len(map) |->
                     [name |-> map[i].name,
                      description |-> map[i].description,
                      recordCount |-> Len(map[i].data),
                      columns |-> [j \in 1..Len(map[i].schema) |-> map[i].schema[j].field]]]),
         {})

\* The stats of a field as JSON.stringify writes them.
StatsJson(type, st) ==
  IF type = "number"
  THEN [min |-> JsonValue(st.min), max |-> JsonValue(st.max), avg |-> JsonValue(st.avg)]
  ELSE IF type = "string"
  THEN [uniqueCount |-> st.uniqueCount,
        values |-> [i \in 1..Len(st.values) |-> JsonValue(st.values[i])]]
  ELSE st

\* The schema of the dataset with the stats of each field.
SchemaWithStats(dataset) ==
  Served(Envelope([name |-> dataset.name,
                   description |-> dataset.description,
                   recordCount |-> Len(dataset.data),
                   schema |-> [j \in 1..Len(dataset.schema) |->
                                 [field |-> dataset.schema[j].field,
                                  type |-> dataset.schema[j].type,
                                  stats |-> StatsJson(dataset.schema[j].type,
                                                      getFieldStats(dataset.data,
                                                                    dataset.schema[j].field,
                                                                    dataset.schema[j].type))]]]),
         {"getFieldStats"})

\* POST /api/tools/get-schema
GetSchema(map, args) ==
  IF ~DatasetFound(map, args) THEN Served(NotFoundEnvelope, {})
  ELSE SchemaWithStats(MapGet(map, args.dataset))

\* Mutant of Slice: the element at `end` is taken too.
SliceInclusive(seq, start, end) ==
  LET len == Len(seq)
      clamp(i) == IF i < 0 THEN (IF len + i < 0 THEN 0 ELSE len + i)
                  ELSE (IF i > len THEN len ELSE i)
      last == IF clamp(end) < len THEN clamp(end) + 1 ELSE len
  IN IF clamp(start) >= last THEN << >>
     ELSE SubSeq(seq, clamp(start) + 1, last)

\* data.slice(start, end): a negative index counts from the end of the
\* array, and both are clamped to the array.
Slice(seq, start, end) ==
  LET len == Len(seq)
      clamp(i) == IF i < 0 THEN (IF len + i < 0 THEN 0 ELSE len + i)
                  ELSE (IF i > len THEN len ELSE i)
  IN IF clamp(start) >= clamp(end) THEN << >>
     ELSE SubSeq(seq, clamp(start) + 1, clamp(end))

\* A handler that throws: express answers 500 with an HTML page, which is no
\* JSON.
InternalServerError == [json |-> FALSE, status |-> 500]

\* if (value): an object is truthy, and so is every tagged value but null,
\* "", 0 and NaN.
Truthy(x) ==
  IF ~Has(x, "t") THEN TRUE
  ELSE CASE x.t = "string" -> x.v # << >>
         [] x.t = "number" -> x.v # 0
         [] x.t \in {"null", "undefined", "NaN"} -> FALSE
         [] OTHER -> TRUE

\* filters.length > 0, for filters other than null: an array or a string has
\* a length, of anything else it is undefined.
LengthPositive(x) == x.t \in {"array", "string"} /\ Len(x.v) > 0

\* let data = [...dataset.data]; if (filters.length > 0) data =
\* applyFilters(data, filters): what `data` is then, or Thrown (filters is
\* null, or applyFilters throws).
FilteredData(dataset, filters) ==
  IF filters = Null THEN Thrown
  ELSE IF LengthPositive(filters) THEN applyFilters(dataset.data, filters)
  ELSE Returned(dataset.data)

\* POST /api/tools/query-data
QueryData(map, args) ==
  IF ~DatasetFound(map, args) THEN Served(NotFoundEnvelope, {})
  ELSE LET dataset == MapGet(map, args.dataset)
           filters == IF Has(args, "filters") THEN args.filters ELSE Arr(<< >>)
           limit == IF Has(args, "limit") THEN args.limit ELSE DefaultLimit
           offset == IF Has(args, "offset") THEN args.offset ELSE 0
           filtered == FilteredData(dataset, filters)
           sorting == Has(args, "sort") /\ Truthy(args.sort)
       IN IF filtered.threw THEN InternalServerError
          ELSE LET totalCount == Len(filtered.value)
                   data == IF sorting THEN sortData(filtered.value, args.sort)
                           ELSE filtered.value
               IN Served(Envelope([data |-> Slice(data, offset, offset + limit),
                                   totalCount |-> totalCount,
                                   offset |-> offset,
                                   limit |-> limit,
                                   hasMore |-> (offset + limit < totalCount)]),
                         (IF LengthPositive(filters) THEN {"applyFilters"} ELSE {})
                           \cup (IF sorting THEN {"sortData"} ELSE {}))

\* The answer of aggregate with these results.  groupBy, metric and
\* operation are dropped from the text when they are undefined.
AggregateResults(args, results) ==
  Served(Envelope([k \in {k \in {"groupBy", "metric", "operation"} : Has(args, k)}
                          \cup {"results"} |->
                     IF k = "results"
                     THEN [i \in 1..Len(results) |->
                             [group |-> results[i].group,
                              value |-> JsonValue(results[i].value)]]
                     ELSE args[k]]),
         {"aggregateData"})

\* POST /api/tools/aggregate
Aggregate(map, args) ==
  IF ~DatasetFound(map, args) THEN Served(NotFoundEnvelope, {})
  ELSE AggregateResults(args,
                        aggregateData(MapGet(map, args.dataset).data, KeyArg(args, "groupBy"),
                                      KeyArg(args, "metric"), KeyArg(args, "operation")))

\* The CSV text of export-data: the header line and one line a record; a
\* string value that holds a comma is put in quotes, any other value is
\* written as String(value).
CsvContent(data, headers) ==
  LET cell(row, h) ==
        LET val == Get(row, h)
        IN IF val.t = "string" /\ Includes(val.v, << "," >>)
           THEN << "\"" >> \o val.v \o << "\"" >>
           ELSE StringOf(val)
      line(row) == JoinWith([j \in 1..Len(headers) |-> cell(row, headers[j])], << "," >>)
  IN JoinWith(<< JoinWith([j \in 1..Len(headers) |-> KeyChars(headers[j])], << "," >>) >>
                \o [i \in 1..Len(data) |-> line(data[i])],
              << "\n" >>)

\* POST /api/tools/export-data
ExportData(map, args) ==
  IF ~DatasetFound(map, args) THEN Served(NotFoundEnvelope, {})
  ELSE LET dataset == MapGet(map, args.dataset)
           filters == IF Has(args, "filters") THEN args.filters ELSE Arr(<< >>)
           format == IF Has(args, "format") THEN args.format ELSE "json"
           filtered == FilteredData(dataset, filters)
           headers == [j \in 1..Len(dataset.schema) |-> dataset.schema[j].field]
       IN IF filtered.threw THEN InternalServerError
          ELSE Served(Envelope([format |-> format,
                                recordCount |-> Len(filtered.value),
                                content |-> IF format = "csv"
                                            THEN CsvContent(filtered.value, headers)
                                            ELSE JsonStringify(filtered.value, headers)]),
                      IF LengthPositive(filters) THEN {"applyFilters"} ELSE {})

ToolNames == {"list-datasets", "get-schema", "query-data", "aggregate", "export-data"}

\* toolDefinitions: the `required` list of the inputSchema of each tool, as
\* GET /api/tools serves it.  No route reads it.
RequiredArguments(name) ==
  CASE name = "list-datasets" -> {}
    [] name = "aggregate" -> {"dataset", "groupBy", "metric", "operation"}
    [] name \in {"get-schema", "query-data", "export-data"} -> {"dataset"}

\* The express application: POST /api/tools/<name> with the arguments as the
\* JSON body.  A path without route is answered 404 with an HTML page, which
\* is no JSON.
Express(map, name, args) ==
  CASE name = "list-datasets" -> ListDatasets(map, args)
    [] name = "get-schema" -> GetSchema(map, args)
    [] name = "query-data" -> QueryData(map, args)
    [] name = "aggregate" -> Aggregate(map, args)
    [] name = "export-data" -> ExportData(map, args)
    [] OTHER -> [json |-> FALSE]

\* Mutant of StoreAfter: query-data sorts the array of the dataset itself.
StoreAfterSortInPlace(map, name, args) ==
  IF name = "query-data" /\ DatasetFound(map, args) /\ Has(args, "sort") /\ Truthy(args.sort)
  THEN [i \in 1..Len(map) |->
          IF map[i].name = args.dataset
          THEN [name |-> map[i].name, description |-> map[i].description,
                schema |-> map[i].schema, data |-> sortData(map[i].data, args.sort)]
          ELSE map[i]]
  ELSE map

\* The dataset map after the handler of POST /api/tools/<name> has run.  No
\* handler writes to the map or to a dataset: query-data and export-data work
\* on the copy [...dataset.data], applyFilters returns a new array, sortData
\* sorts a copy of its argument, and aggregateData and getUniqueValues sort
\* arrays they have built themselves.
StoreAfter(map, name, args) == map

\* ------------------------------------------------------------- host relay

VARIABLES
  event,       \* the latest message event dispatched to the window, or NoEvent
  handling,    \* TRUE while handleMessage has yet to run on `event`
  nevents,     \* number of message events delivered so far
  connected,   \* setStatus: the status dot
  statusText,  \* setStatus: the status text
  log,         \* logContent: the log entries, newest first
  requests,    \* the messages handleMessage took as requests, in order (history)
  calls,       \* the fetch calls issued by callTool, in order of issue
  posted,      \* what was posted to appFrame.contentWindow, in order
  datasets,    \* server: the dataset map
  rows,        \* query engine: the record array handed to an engine function
  ecall        \* the engine function or route called directly, its arguments
               \* and what it returned (history)

\* The app in the frame: its state and what it has rendered.
VARIABLES
  datasetInfos,    \* app: `datasets`, what list-datasets returned
  currentDataset,  \* app: the dataset chosen in datasetSelect, "" for none
  currentSchema,   \* app: what get-schema returned last, or null
  currentData,     \* app: the records of the page shown
  currentFilters,  \* app: the filters in force
  currentSort,     \* app: the sort in force, or null
  currentPage,     \* app: the page shown, from 0
  totalCount,      \* app: the number of records the filters let through
  filterContainer, \* the fields whose filter inputs are rendered
  tableContainer,  \* what the table area shows
  pagination,      \* the page buttons rendered, with what their handlers captured
  chart,           \* the chart drawn, or null
  appCalls,        \* the calls callTool made, in order of issue (history)
  clicks           \* number of user events so far

hostVars == << connected, statusText, log, requests, calls, posted >>
appVars == << datasetInfos, currentDataset, currentSchema, currentData, currentFilters,
             currentSort, currentPage, totalCount, filterContainer, tableContainer,
             pagination, chart, appCalls, clicks >>
vars == << event, handling, nevents, connected, statusText, log, requests, calls, posted, datasets,
          rows, ecall, appVars >>

AppFrame == "appFrame.contentWindow"
OtherWindow == "otherWindow"

NoEvent == [source |-> "none"]

\* No engine function or route has been called directly.
NoCall == [op |-> "none"]

\* JSON-RPC messages of the universe
Ids == {"1", "2"}

Request(id, method) == [jsonrpc |-> "2.0", id |-> id, method |-> method]

RequestWith(id, method, params) ==
  [jsonrpc |-> "2.0", id |-> id, method |-> method, params |-> params]

Notification(method) == [jsonrpc |-> "2.0", method |-> method]

\* the tools/call requests of the relay specification
ToolCalls ==
  { RequestWith("1", "tools/call", [name |-> "list-datasets"]),
    RequestWith("2", "tools/call", [name |-> "get-schema", arguments |-> [dataset |-> "sales"]]),
    RequestWith("1", "tools/call", [name |-> "no-such-tool", arguments |-> EmptyObject]),
    Request("1", "tools/call") }

Messages ==
  ToolCalls
  \cup {Request("1", "ui/initialize"),
        RequestWith("2", "ui/initialize", [protocolVersion |-> "2024-01-01"]),
        Request("1", "ping"),
        Request("1", "resources/list")}
  \cup {Notification("notifications/initialized"),
        [jsonrpc |-> "2.0", method |-> "tools/call", params |-> [name |-> "list-datasets"]],
        [jsonrpc |-> "1.0", id |-> "1", method |-> "ping"],
        [jsonrpc |-> "2.0"],
        [primitive |-> "hello"]}

Events ==
  {[source |-> AppFrame, data |-> m] : m \in Messages}
  \cup {[source |-> OtherWindow, data |-> m] :
          m \in {Request("1", "ui/initialize"),
                 RequestWith("1", "tools/call", [name |-> "list-datasets"]),
                 Notification("notifications/initialized")}}

\* Mutant of FromAppFrame: the source of the event is not checked.
FromAnyWindow(e) == TRUE

\* event.source !== appFrame.contentWindow
FromAppFrame(e) == e.source = AppFrame

\* !message || typeof message !== 'object'
IsObject(m) == ~Has(m, "primitive")

\* message.method === method
MethodIs(m, method) == Has(m, "method") /\ m.method = method

\* Mutant of IsRequest: a tools/call message is taken as a request even
\* without id.
IsRequestOrToolCall(m) ==
  Has(m, "jsonrpc") /\ m.jsonrpc = "2.0" /\ (Has(m, "id") \/ MethodIs(m, "tools/call"))

\* message.jsonrpc === '2.0' && message.id !== undefined
IsRequest(m) == Has(m, "jsonrpc") /\ m.jsonrpc = "2.0" /\ Has(m, "id")

\* else if (message.method)
HasMethod(m) == Has(m, "method")

\* addLog: the entry goes first, and the log keeps its first 30 entries.
addLog(entries, type, data) ==
  LET grown == << [type |-> type, data |-> data] >> \o entries
  IN IF Len(grown) > LogCap THEN SubSeq(grown, 1, LogCap) ELSE grown

\* addLog('request', { method: message.method, params: message.params ? '...' : undefined })
RequestLogData(m) ==
  << IF Has(m, "method") THEN m.method ELSE "undefined",
     IF Has(m, "params") THEN "..." ELSE "undefined" >>

\* { jsonrpc: '2.0', id: message.id, result }
ResultResponse(id, result) == [jsonrpc |-> "2.0", id |-> id, result |-> result]

\* Mutant of ErrorResponse: the failure is reported inside a result.
ErrorAsResult(id, error) ==
  [jsonrpc |-> "2.0", id |-> id,
   result |-> [error |-> [code |-> ErrorCode, message |-> error]]]

\* { jsonrpc: '2.0', id: message.id, error: { code: -32000, message: String(error) } }
ErrorResponse(id, error) ==
  [jsonrpc |-> "2.0", id |-> id, error |-> [code |-> ErrorCode, message |-> error]]

\* Mutant of postMessage: the message is posted twice.
postMessageTwice(out, req, message) ==
  Append(Append(out, [to |-> AppFrame, req |-> req, data |-> message]),
         [to |-> AppFrame, req |-> req, data |-> message])

\* Mutant of postMessage: the catch block posts nothing.
postMessageUnlessError(out, req, message) ==
  IF Has(message, "error") THEN out
  ELSE Append(out, [to |-> AppFrame, req |-> req, data |-> message])

\* appFrame.contentWindow?.postMessage(message, '*'); req is the index in
\* `requests` of the request being answered (history).
postMessage(out, req, message) ==
  Append(out, [to |-> AppFrame, req |-> req, data |-> message])

\* Mutant of LocalResult: the default case answers that the method is unknown.
LocalResultStrict(m) ==
  IF MethodIs(m, "ui/initialize")
  THEN [protocolVersion |-> DefaultProtocolVersion,
        hostCapabilities |-> [serverTools |-> EmptyObject, logging |-> EmptyObject],
        hostInfo |-> [name |-> "DataExplorerHost", version |-> "1.0.0"],
        hostContext |-> EmptyObject]
  ELSE IF MethodIs(m, "ping") THEN EmptyObject
  ELSE [unhandled |-> m.method]

\* The result of the methods answered without a backend call.
LocalResult(m) ==
  IF MethodIs(m, "ui/initialize")
  THEN [protocolVersion |->
          IF Has(m, "params") /\ Has(m.params, "protocolVersion")
          THEN m.params.protocolVersion ELSE DefaultProtocolVersion,
        hostCapabilities |-> [serverTools |-> EmptyObject, logging |-> EmptyObject],
        hostInfo |-> [name |-> "DataExplorerHost", version |-> "1.0.0"],
        hostContext |-> EmptyObject]
  ELSE EmptyObject   \* 'ping' and the default case

\* Mutant of callTool: the request is sent twice.
callToolTwice(issued, req, name, args) ==
  Append(Append(issued, [req |-> req, name |-> name, args |-> args,
                         state |-> "pending", resumed |-> FALSE]),
         [req |-> req, name |-> name, args |-> args,
          state |-> "pending", resumed |-> FALSE])

\* callTool(name, args): one fetch, POST /api/tools/<name> with the arguments.
callTool(issued, req, name, args) ==
  Append(issued, [req |-> req, name |-> name, args |-> args,
                  state |-> "pending", resumed |-> FALSE])

\* String(error) of what the handler can throw
ParamsTypeError == "TypeError: Cannot read properties of undefined (reading 'name')"
FetchTypeError == "TypeError: Failed to fetch"
JsonSyntaxError == "SyntaxError: Unexpected token '<' is not valid JSON"

\* The request branch of handleMessage up to its first await, for the
\* request m taken as number r.
HandleRequest(m, r) ==
  /\ requests' = Append(requests, m)
  /\ IF MethodIs(m, "tools/call")
     THEN IF ~Has(m, "params")
          THEN \* message.params.name throws; the catch answers
               /\ log' = addLog(addLog(log, "request", RequestLogData(m)),
                                "error", << ParamsTypeError >>)
               /\ posted' = postMessage(posted, r, ErrorResponse(m.id, ParamsTypeError))
               /\ UNCHANGED << connected, statusText, calls >>
          ELSE \* await callTool(message.params.name, message.params.arguments || {})
               /\ log' = addLog(log, "request", RequestLogData(m))
               /\ calls' = callTool(calls, r, KeyArg(m.params, "name"),
                                    IF Has(m.params, "arguments")
                                    THEN m.params.arguments ELSE EmptyObject)
               /\ UNCHANGED << connected, statusText, posted >>
     ELSE /\ IF MethodIs(m, "ui/initialize")
             THEN connected' = TRUE /\ statusText' = "Connected"
             ELSE UNCHANGED << connected, statusText >>
          /\ log' = LET l1 == addLog(log, "request", RequestLogData(m))
                        l2 == IF MethodIs(m, "ui/initialize") \/ MethodIs(m, "ping")
                              THEN l1
                              ELSE addLog(l1, "info", << "Unhandled: ", m.method >>)
                    IN addLog(l2, "response", << "OK" >>)
          /\ posted' = postMessage(posted, r, ResultResponse(m.id, LocalResult(m)))
          /\ UNCHANGED calls

\* A message event is dispatched to the window.
Deliver(e, max) ==
  /\ ~handling
  /\ nevents < max
  /\ event' = e
  /\ handling' = TRUE
  /\ nevents' = nevents + 1
  /\ UNCHANGED << hostVars, datasets, rows, ecall, appVars >>

\* handleMessage(event), up to its first await.
HandleMessage ==
  /\ handling
  /\ handling' = FALSE
  /\ UNCHANGED << event, nevents, datasets, rows, ecall, appVars >>
  /\ IF ~FromAppFrame(event) \/ ~IsObject(event.data)
     THEN UNCHANGED hostVars
     ELSE IF IsRequest(event.data)
     THEN HandleRequest(event.data, Len(requests) + 1)
     ELSE IF HasMethod(event.data)
     THEN /\ log' = addLog(log, "info", << "Notification: ", event.data.method >>)
          /\ UNCHANGED << connected, statusText, requests, calls, posted >>
     ELSE UNCHANGED hostVars

\* The server handles the HTTP request of call k and answers it.
ServerRespond(k) ==
  /\ calls[k].state = "pending"
  /\ calls' = [calls EXCEPT ![k] =
                 [req |-> calls[k].req, name |-> calls[k].name, args |-> calls[k].args,
                  state |-> "responded", resumed |-> FALSE,
                  response |-> Express(datasets, calls[k].name, calls[k].args)]]
  /\ datasets' = StoreAfter(datasets, calls[k].name, calls[k].args)
  /\ UNCHANGED << event, handling, nevents, connected, statusText, log, requests, posted,
                  rows, ecall, appVars >>

\* The fetch of call k fails (the server cannot be reached): fetch rejects.
FetchFail(k) ==
  /\ calls[k].state = "pending"
  /\ calls' = [calls EXCEPT ![k].state = "failed"]
  /\ UNCHANGED << event, handling, nevents, connected, statusText, log, requests, posted,
                  datasets, rows, ecall, appVars >>

\* Mutant of ToolResult: the handlers share one result variable, which holds
\* the body of the call that was issued last among those answered with JSON.
LatestToolResult(issued, k) ==
  LET answered == {j \in 1..Len(issued) :
                     issued[j].state = "responded" /\ issued[j].response.json}
  IN issued[CHOOSE j \in answered : \A j2 \in answered : j2 <= j].response.body

\* The value `await callTool(...)` gives the handler of call k: the parsed
\* JSON body.
ToolResult(issued, k) == issued[k].response.body

\* Whether `await callTool(...)` throws in the handler of call c: fetch
\* rejected, or response.json() rejected because the body is no JSON.
CallThrows(c) == c.state = "failed" \/ ~c.response.json

CallError(c) == IF c.state = "failed" THEN FetchTypeError ELSE JsonSyntaxError

\* handleMessage resumes after `await callTool(...)` of call k and answers.
Resume(k) ==
  /\ calls[k].state \in {"responded", "failed"}
  /\ ~calls[k].resumed
  /\ calls' = [calls EXCEPT ![k].resumed = TRUE]
  /\ LET c == calls[k]
         m == requests[c.req]
     IN IF CallThrows(c)
        THEN /\ log' = addLog(log, "error", << CallError(c) >>)
             /\ posted' = postMessage(posted, c.req, ErrorResponse(m.id, CallError(c)))
        ELSE /\ log' = addLog(log, "response", << KeyArg(m.params, "name"), " OK" >>)
             /\ posted' = postMessage(posted, c.req, ResultResponse(m.id, ToolResult(calls, k)))
  /\ UNCHANGED << event, handling, nevents, connected, statusText, requests, datasets,
                  rows, ecall, appVars >>

\* After construction: init() has run on the host (setStatus(false,
\* 'Waiting for app...'), addLog('info', 'Host ready')), loadDatasets() on
\* the server.
\* The app's state as the module leaves it, nothing rendered yet.
InitApp ==
  /\ datasetInfos = << >>
  /\ currentDataset = ""
  /\ currentSchema = Null
  /\ currentData = << >>
  /\ currentFilters = << >>
  /\ currentSort = Null
  /\ currentPage = 0
  /\ totalCount = 0
  /\ filterContainer = << >>
  /\ tableContainer = [kind |-> "select"]
  /\ pagination = [shown |-> FALSE]
  /\ chart = Null
  /\ appCalls = << >>
  /\ clicks = 0

Init ==
  /\ event = NoEvent
  /\ handling = FALSE
  /\ nevents = 0
  /\ connected = FALSE
  /\ statusText = "Waiting for app..."
  /\ log = addLog(<< >>, "info", << "Host ready" >>)
  /\ requests = << >>
  /\ calls = << >>
  /\ posted = << >>
  /\ datasets = loadDatasets
  /\ rows = << >>
  /\ ecall = NoCall
  /\ InitApp

Next ==
  \/ \E e \in Events : Deliver(e, MaxEvents)
  \/ HandleMessage
  \/ \E k \in 1..Len(calls) : ServerRespond(k)
  \/ \E k \in 1..Len(calls) : FetchFail(k)
  \/ \E k \in 1..Len(calls) : Resume(k)

Spec == Init /\ [][Next]_vars

\* Scheduling: a backend call eventually resolves or rejects (the claim's
\* assumption), a settled promise resumes its handler, and a dispatched event
\* reaches its listener.
Fairness ==
  /\ WF_vars(HandleMessage)
  /\ WF_vars(\E k \in 1..Len(calls) : FetchFail(k) \/ ServerRespond(k))
  /\ WF_vars(\E k \in 1..Len(calls) : Resume(k))

FairSpec == Init /\ [][Next]_vars /\ Fairness

\* ---- the tool dispatch specification: tools/call requests for every tool,
\* with a dataset that is loaded, one that is not, and none.

MaxToolEvents == 2

ToolArguments ==
  {[dataset |-> "sales"], [dataset |-> "nope"], EmptyObject}

ToolEvents ==
  {[source |-> AppFrame,
    data |-> RequestWith("1", "tools/call", [name |-> n, arguments |-> a])] :
     n \in ToolNames, a \in ToolArguments}
  \cup {[source |-> AppFrame,
         data |-> RequestWith("2", "tools/call", [name |-> "query-data"])]}

NextTools ==
  \/ \E e \in ToolEvents : Deliver(e, MaxToolEvents)
  \/ HandleMessage
  \/ \E k \in 1..Len(calls) : ServerRespond(k)
  \/ \E k \in 1..Len(calls) : FetchFail(k)
  \/ \E k \in 1..Len(calls) : Resume(k)

SpecTools == Init /\ [][NextTools]_vars

\* ---- the query engine specification: applyFilters, sortData and
\* aggregateData applied to a record array drawn from a bounded universe.

\* Largest number of records of an array the engine functions are run on.
MaxRows == 3

\* The fields k and m of a record: numbers, strings (numeric or not, upper
\* and lower case), null, or absent.
RecordKinds ==
  { [k |-> Whole(1), m |-> Whole(2)],
    [k |-> Str(<< "1" >>), m |-> Num(150)],
    [k |-> Str(<< "a" >>), m |-> Str(<< "7" >>)],
    [k |-> Str(<< "E" >>), m |-> Str(<< "a" >>)],
    [k |-> Whole(2)],
    [m |-> Null],
    [k |-> Null, m |-> Num(-325)] }

\* The arrays of at most MaxRows records; the field id of a record is its
\* place in the array, so that two records are never the same.
EngineRows ==
  UNION {{[i \in 1..n |-> ("id" :> i) @@ kinds[i]] : kinds \in [1..n -> RecordKinds]} :
           n \in 0..MaxRows}

Operators == {"eq", "ne", "gt", "gte", "lt", "lte", "contains", "in"}

FilterValues ==
  {Whole(1), Str(<< "a" >>), Null, Arr(<< Whole(1), Str(<< "E" >>) >>)}

\* One filter: a field, an operator (one outside the list too), and a value
\* or none.
SingleFilters ==
  {[field |-> f, operator |-> o, value |-> v] :
     f \in {"k", "m"}, o \in Operators \cup {"like"}, v \in FilterValues}
  \cup {[field |-> f, operator |-> o] : f \in {"k", "m"}, o \in Operators \cup {"like"}}

FiltersA ==
  { [field |-> "k", operator |-> "ne", value |-> Whole(1)],
    [field |-> "k", operator |-> "contains", value |-> Str(<< "A" >>)],
    [field |-> "m", operator |-> "gte", value |-> Whole(1)] }

FiltersB ==
  { [field |-> "m", operator |-> "lt", value |-> Whole(2)],
    [field |-> "x", operator |-> "eq", value |-> Null],
    [field |-> "m", operator |-> "in", value |-> Arr(<< Null, Whole(2) >>)],
    [field |-> "m", operator |-> "in", value |-> Whole(2)],
    Null }

\* Filters whose operator is none of the list, or absent.
UnknownFilters ==
  { [field |-> "k", operator |-> "like", value |-> Whole(1)],
    [field |-> "x", operator |-> "EQ"],
    [field |-> "m", value |-> Null] }

\* The values handed to applyFilters as `filters`: arrays of none, one or two
\* filters, and values that are no array.
FilterArguments ==
  {Arr(<< >>)}
  \cup {Arr(<< f >>) : f \in SingleFilters}
  \cup {Arr(<< f, g >>) : f \in FiltersA, g \in FiltersB}
  \cup {Arr(<< g, f >>) : f \in FiltersA, g \in FiltersB}
  \cup {Arr(<< f, u >>) : f \in FiltersA \cup FiltersB, u \in UnknownFilters}
  \cup {Arr(<< u, f >>) : f \in FiltersA \cup FiltersB, u \in UnknownFilters}
  \cup {Str(<< "a" >>), Whole(1)}

SortSpecs ==
  {[field |-> f, direction |-> d] : f \in {"k", "m", "x"}, d \in {"asc", "desc"}}
  \cup {[field |-> "k"], [direction |-> "asc"]}

Operations == {"sum", "avg", "count", "min", "max"}

\* applyFilters(rows, filters) is called.
ApplyFilters(filters) ==
  /\ ecall = NoCall
  /\ ecall' = [op |-> "applyFilters", filters |-> filters,
               result |-> applyFilters(rows, filters)]
  /\ UNCHANGED << event, handling, nevents, hostVars, datasets, rows, appVars >>

\* sortData(rows, sort) is called; the array `rows` is not the one sorted.
SortData(sort) ==
  /\ ecall = NoCall
  /\ ecall' = [op |-> "sortData", sort |-> sort, result |-> sortData(rows, sort)]
  /\ UNCHANGED << event, handling, nevents, hostVars, datasets, rows, appVars >>

\* aggregateData(rows, groupBy, metric, operation) is called.
AggregateData(groupBy, metric, operation) ==
  /\ ecall = NoCall
  /\ ecall' = [op |-> "aggregateData", groupBy |-> groupBy, metric |-> metric,
               operation |-> operation,
               result |-> aggregateData(rows, groupBy, metric, operation)]
  /\ UNCHANGED << event, handling, nevents, hostVars, datasets, rows, appVars >>

\* getFieldStats(rows, field, type) is called.
GetFieldStats(field, type) ==
  /\ ecall = NoCall
  /\ ecall' = [op |-> "getFieldStats", field |-> field, type |-> type,
               result |-> getFieldStats(rows, field, type)]
  /\ UNCHANGED << event, handling, nevents, hostVars, datasets, rows, appVars >>

InitEngine ==
  /\ event = NoEvent
  /\ handling = FALSE
  /\ nevents = 0
  /\ connected = FALSE
  /\ statusText = "Waiting for app..."
  /\ log = addLog(<< >>, "info", << "Host ready" >>)
  /\ requests = << >>
  /\ calls = << >>
  /\ posted = << >>
  /\ datasets = loadDatasets
  /\ rows \in EngineRows
  /\ ecall = NoCall
  /\ InitApp

NextEngine ==
  \/ \E filters \in FilterArguments : ApplyFilters(filters)
  \/ \E sort \in SortSpecs : SortData(sort)
  \/ \E groupBy \in {"k", "m", "x"}, metric \in {"k", "m", "x"},
         operation \in Operations \cup {"median"} :
       AggregateData(groupBy, metric, operation)
  \/ \E field \in {"k", "m", "x"}, type \in {"number", "string", "boolean"} :
       GetFieldStats(field, type)

SpecEngine == InitEngine /\ [][NextEngine]_vars

\* ---- the server specification: the routes called directly (no relay), on
\* a store loaded from three files.

\* offset and limit range over -MaxPage..MaxPage.
MaxPage == 4

PageRange == (-MaxPage)..MaxPage

\* A third file, with strings that hold a quote, a backslash, a comma and a
\* line feed, a record without one of the fields and a null.
NotesFile ==
  [name |-> "notes", description |-> "Notes",
   schema |-> << [field |-> "note", type |-> "string"],
                 [field |-> "net", type |-> "number"] >>,
   data |-> << [note |-> Str(<< "a", "\"", "d" >>), net |-> Num(-150)],
               [note |-> Str(<< "\\", ",", "\n" >>)],
               [note |-> Null, net |-> Whole(0)] >>]

\* An optional property: absent, or one of the values.
Optional(key, values) == {EmptyObject} \cup {key :> v : v \in values}

RegionIs(region) == Arr(<< [field |-> "region", operator |-> "eq", value |-> Str(region)] >>)

\* Filter lists that leave 2, 1 and 0 of the records of sales.
CountingFilters == {RegionIs(<< "W" >>), RegionIs(<< "E" >>), RegionIs(<< "N" >>)}

\* Filter arguments of any kind: lists, the empty list, a list whose filter
\* has operator `in` with a number as value, a string, null.
AnyFilters ==
  CountingFilters
  \cup { Arr(<< >>),
         Arr(<< [field |-> "net", operator |-> "lte", value |-> Whole(0)] >>),
         Arr(<< [field |-> "region", operator |-> "in", value |-> Whole(5)] >>),
         Str(<< "a" >>),
         Null }

SortArguments ==
  { [field |-> "revenue", direction |-> "asc"],
    [field |-> "region", direction |-> "desc"],
    [field |-> "net", direction |-> "desc"],
    Null }

\* query-data on sales for every offset and limit of the range.
PagingCalls ==
  {[name |-> "query-data", args |-> [dataset |-> "sales"] @@ f @@ s @@ o @@ l] :
     f \in Optional("filters", CountingFilters),
     s \in Optional("sort", {[field |-> "revenue", direction |-> "desc"]}),
     o \in {"offset" :> n : n \in PageRange},
     l \in {"limit" :> n : n \in PageRange}}

DatasetArguments == Optional("dataset", {"sales", "notes", "nope"})

OtherCalls ==
  {[name |-> "query-data", args |-> d @@ f @@ s] :
     d \in DatasetArguments, f \in Optional("filters", AnyFilters),
     s \in Optional("sort", SortArguments)}
  \cup {[name |-> "export-data", args |-> d @@ f @@ x] :
          d \in DatasetArguments, f \in Optional("filters", AnyFilters),
          x \in Optional("format", {"json", "csv", "xml"})}
  \cup {[name |-> "aggregate", args |-> d @@ g @@ m @@ o] :
          d \in DatasetArguments, g \in Optional("groupBy", {"region", "note"}),
          m \in Optional("metric", {"revenue", "net"}),
          o \in Optional("operation", {"sum", "avg", "median"})}
  \cup {[name |-> n, args |-> d] :
          n \in {"get-schema", "list-datasets", "no-such-tool"}, d \in DatasetArguments}

ServerCalls == PagingCalls \cup OtherCalls

\* The calls that also come second or later in a behaviour.
FollowUpCalls ==
  { [name |-> "query-data",
     args |-> [dataset |-> "sales", sort |-> [field |-> "revenue", direction |-> "asc"]]],
    [name |-> "query-data",
     args |-> [dataset |-> "notes", filters |-> Arr(<< >>),
               sort |-> [field |-> "net", direction |-> "desc"]]],
    [name |-> "export-data", args |-> [dataset |-> "sales", format |-> "csv"]],
    [name |-> "aggregate",
     args |-> [dataset |-> "sales", groupBy |-> "region", metric |-> "revenue",
               operation |-> "sum"]],
    [name |-> "get-schema", args |-> [dataset |-> "sales"]],
    [name |-> "list-datasets", args |-> EmptyObject] }

\* The server handles POST /api/tools/<name> with body args.
Post(name, args) ==
  /\ ecall = NoCall \/ [name |-> name, args |-> args] \in FollowUpCalls
  /\ ecall' = [op |-> "POST", name |-> name, args |-> args,
               response |-> Express(datasets, name, args)]
  /\ datasets' = StoreAfter(datasets, name, args)
  /\ UNCHANGED << event, handling, nevents, hostVars, rows, appVars >>

InitServer ==
  /\ event = NoEvent
  /\ handling = FALSE
  /\ nevents = 0
  /\ connected = FALSE
  /\ statusText = "Waiting for app..."
  /\ log = addLog(<< >>, "info", << "Host ready" >>)
  /\ requests = << >>
  /\ calls = << >>
  /\ posted = << >>
  /\ datasets = loadFrom(DatasetFiles \o << NotesFile >>, << >>)
  /\ rows = << >>
  /\ ecall = NoCall
  /\ InitApp

NextServer == \E call \in ServerCalls : Post(call.name, call.args)

SpecServer == InitServer /\ [][NextServer]_vars

\* ------------------------------------------------------------------ the app

\* The app calls a tool through the host, which posts the call to the server
\* and hands the JSON body of the answer back as the result; here the app and
\* the server meet directly, and an answer may come at any time after the
\* call, in any order with the answers to other calls.  What the user puts
\* into the filter inputs is chosen at the click that reads them.  The chart
\* selects stay as updateChartSelectors() leaves them, and exportData(), which
\* writes none of the app's state, is left out.

pageSize == 50

\* What no step of the app changes.
NotApp == << event, handling, nevents, hostVars, datasets, rows, ecall >>

\* Bounds
MaxClicks == 3
MaxEntered == 1
OrdersCount == 52

\* The dataset files of this store: one dataset of more than one page, one
\* of less.
AppFiles ==
  << [name |-> "orders", description |-> "Orders",
      schema |-> << [field |-> "region", type |-> "string"],
                    [field |-> "revenue", type |-> "number"] >>,
      data |-> [i \in 1..OrdersCount |->
                  [region |-> Str(IF i % 5 = 0 THEN << "E" >> ELSE << "W" >>),
                   revenue |-> Whole(i)]]],
     [name |-> "weather", description |-> "Weather",
      schema |-> << [field |-> "city", type |-> "string"],
                    [field |-> "temp", type |-> "number"] >>,
      data |-> << [city |-> Str(<< "O" >>), temp |-> Whole(-3)],
                  [city |-> Str(<< "R" >>), temp |-> Whole(18)] >>] >>

\* callTool(name, args) up to its await: the call is on its way.  `by` is the
\* handler the call was made in.
IssueCall(made, name, args, by) ==
  Append(made, [name |-> name, args |-> args, by |-> by, state |-> "pending"])

\* The await of call number k is over.
Answered(made, k) == [made EXCEPT ![k].state = "done"]

\* What the server answers to the call.
AnswerTo(call) == Express(datasets, call.name, call.args)

\* callTool(name, args) after its await: JSON.parse(content.text) of the
\* first content of the result.
ParsedText(answer) == answer.body.content[1].text

\* Call number k, of tool `name`, awaits its answer.
Pending(k, name) ==
  /\ k \in 1..Len(appCalls)
  /\ appCalls[k].state = "pending"
  /\ appCalls[k].name = name

\* The arguments queryData() sends.
QueryArguments(dataset, filters, sort, page) ==
  [dataset |-> dataset, filters |-> Arr(filters), sort |-> sort,
   limit |-> pageSize, offset |-> page * pageSize]

Loading == [kind |-> "loading"]

\* queryData() up to its await, called in handler `by` when the app's state
\* is the given one and `made` are the calls made so far.
queryData(made, by, dataset, filters, sort, page) ==
  IF dataset = ""
  THEN /\ appCalls' = made
       /\ UNCHANGED tableContainer
  ELSE /\ tableContainer' = Loading
       /\ appCalls' = IssueCall(made, "query-data",
                                QueryArguments(dataset, filters, sort, page), by)

\* renderFilters(): the inputs in document order, a number field has two.
FilterGroup(info) ==
  IF info.type = "number"
  THEN << [field |-> info.field, type |-> "min", options |-> << >>],
          [field |-> info.field, type |-> "max", options |-> << >>] >>
  ELSE IF info.type = "string" /\ Has(info.stats, "values") /\ Len(info.stats.values) <= 20
  THEN << [field |-> info.field, type |-> "select", options |-> info.stats.values] >>
  ELSE << [field |-> info.field, type |-> "search", options |-> << >>] >>

RECURSIVE FilterGroups(_)
FilterGroups(infos) ==
  IF infos = << >> THEN << >>
  ELSE FilterGroup(Head(infos)) \o FilterGroups(Tail(infos))

renderFilters(schema) == IF schema = Null THEN << >> ELSE FilterGroups(schema.schema)

\* What the user may have put into an input: nothing, an option of a select,
\* a number or a text.
Empty == Str(<< >>)

EnteredValues(input) ==
  {Empty} \cup
    (CASE input.type = "select" -> {input.options[i] : i \in 1..Len(input.options)}
       [] input.type \in {"min", "max"} -> {Str(<< "5", "0" >>)}
       [] OTHER -> {Str(<< "E" >>)})

\* What the inputs hold, with at most MaxEntered of them filled.
Entered(inputs) ==
  {entered \in [DOMAIN inputs -> UNION {EnteredValues(inputs[i]) : i \in DOMAIN inputs}] :
     /\ \A i \in DOMAIN inputs : entered[i] \in EnteredValues(inputs[i])
     /\ Cardinality({i \in DOMAIN inputs : entered[i] # Empty}) <= MaxEntered}

\* The filter collectFilters() pushes for one input.
FilterOf(input, value) ==
  CASE input.type = "min" ->
         [field |-> input.field, operator |-> "gte", value |-> StringToNumber(value.v)]
    [] input.type = "max" ->
         [field |-> input.field, operator |-> "lte", value |-> StringToNumber(value.v)]
    [] input.type = "select" ->
         [field |-> input.field, operator |-> "eq", value |-> value]
    [] input.type = "search" ->
         [field |-> input.field, operator |-> "contains", value |-> value]

\* collectFilters(): one filter for each input that holds a value, in
\* document order.
RECURSIVE collectFilters(_, _, _)
collectFilters(inputs, entered, i) ==
  IF i > Len(inputs) THEN << >>
  ELSE (IF TrimEnd(TrimStart(entered[i].v)) = << >> THEN << >>
        ELSE << FilterOf(inputs[i], Str(TrimEnd(TrimStart(entered[i].v)))) >>)
       \o collectFilters(inputs, entered, i + 1)

\* renderTable()
renderTable(schema, data) ==
  IF schema = Null \/ Len(data) = 0 THEN [kind |-> "empty"]
  ELSE [kind |-> "table",
        columns |-> [j \in 1..Len(schema.schema) |-> schema.schema[j].field],
        rows |-> data]

\* Math.ceil(total / pageSize)
Ceil(total, size) == (total + size - 1) \div size

\* renderPagination(): the buttons, and the totalPages their handlers hold.
\* With one page or none the buttons are taken away.
renderPagination(total, page) ==
  IF Ceil(total, pageSize) <= 1 THEN [shown |-> FALSE]
  ELSE [shown |-> TRUE,
        totalPages |-> Ceil(total, pageSize),
        prevDisabled |-> (page = 0),
        nextDisabled |-> (page >= Ceil(total, pageSize) - 1)]

\* updateChartSelectors(): the first string field and the first number field
\* are chosen, "" where there is none.
FirstOfType(infos, type) ==
  IF \E j \in 1..Len(infos) : infos[j].type = type
  THEN infos[CHOOSE j \in 1..Len(infos) :
               /\ infos[j].type = type
               /\ \A i \in 1..(j - 1) : infos[i].type # type].field
  ELSE ""

chartGroupBySelect == IF currentSchema = Null THEN "" ELSE FirstOfType(currentSchema.schema, "string")
chartMetricSelect == IF currentSchema = Null THEN "" ELSE FirstOfType(currentSchema.schema, "number")
chartOperationSelect == "sum"

\* app.connect(transport).then(...): loadDatasets() up to its await.
AppConnected ==
  /\ \A k \in 1..Len(appCalls) : appCalls[k].by # "init"
  /\ appCalls' = IssueCall(appCalls, "list-datasets", EmptyObject, "init")
  /\ UNCHANGED NotApp
  /\ UNCHANGED << datasetInfos, currentDataset, currentSchema, currentData, currentFilters,
                  currentSort, currentPage, totalCount, filterContainer, tableContainer,
                  pagination, chart, clicks >>

\* loadDatasets() after its await.
LoadDatasetsAnswered(k, answer) ==
  /\ answer.json
  /\ datasetInfos' = ParsedText(answer)
  /\ appCalls' = Answered(appCalls, k)
  /\ UNCHANGED NotApp
  /\ UNCHANGED << currentDataset, currentSchema, currentData, currentFilters, currentSort,
                  currentPage, totalCount, filterContainer, tableContainer, pagination,
                  chart, clicks >>

\* The options of datasetSelect.
DatasetOptions == {""} \cup {datasetInfos[i].name : i \in 1..Len(datasetInfos)}

\* datasetSelect change, up to the await in loadSchema().
DatasetSelectChange(value) ==
  /\ clicks < MaxClicks
  /\ value \in DatasetOptions
  /\ value # currentDataset
  /\ clicks' = clicks + 1
  /\ currentDataset' = value
  /\ currentPage' = 0
  /\ currentSort' = Null
  /\ currentFilters' = << >>
  /\ IF value # ""
     THEN /\ appCalls' = IssueCall(appCalls, "get-schema", [dataset |-> value], "datasetSelect")
          /\ UNCHANGED << tableContainer, filterContainer >>
     ELSE /\ tableContainer' = [kind |-> "select"]
          /\ filterContainer' = << >>
          /\ UNCHANGED appCalls
  /\ UNCHANGED NotApp
  /\ UNCHANGED << datasetInfos, currentSchema, currentData, totalCount, pagination, chart >>

\* loadSchema() after its await, and the datasetSelect handler after it: its
\* queryData() up to the await.
LoadSchemaAnswered(k, answer) ==
  /\ answer.json
  /\ currentSchema' = ParsedText(answer)
  /\ filterContainer' = renderFilters(ParsedText(answer))
  /\ queryData(Answered(appCalls, k), "datasetSelect",
               currentDataset, currentFilters, currentSort, currentPage)
  /\ UNCHANGED NotApp
  /\ UNCHANGED << datasetInfos, currentDataset, currentData, currentFilters, currentSort,
                  currentPage, totalCount, pagination, chart, clicks >>

\* updateChart() up to its await, called in the handler of call `call`.
updateChart(made, call) ==
  IF currentDataset = "" \/ chartGroupBySelect = "" \/ chartMetricSelect = ""
  THEN /\ chart' = Null
       /\ appCalls' = made
  ELSE /\ appCalls' = IssueCall(made, "aggregate",
                                [dataset |-> currentDataset,
                                 groupBy |-> chartGroupBySelect,
                                 metric |-> chartMetricSelect,
                                 operation |-> chartOperationSelect], call.by)
       /\ UNCHANGED chart

\* queryData() after its await.
QueryDataAnswered(k, answer) ==
  /\ answer.json
  /\ currentData' = ParsedText(answer).data
  /\ totalCount' = ParsedText(answer).totalCount
  /\ tableContainer' = renderTable(currentSchema, ParsedText(answer).data)
  /\ pagination' = renderPagination(ParsedText(answer).totalCount, currentPage)
  /\ updateChart(Answered(appCalls, k), appCalls[k])
  /\ UNCHANGED NotApp
  /\ UNCHANGED << datasetInfos, currentDataset, currentSchema, currentFilters, currentSort,
                  currentPage, filterContainer, clicks >>

\* result.results.slice(0, 15)
ChartOf(result, metric, operation) ==
  [label |-> << operation, " of ", metric >>,
   points |-> Slice(result.results, 0, 15)]

\* updateChart() after its await.
UpdateChartAnswered(k, answer) ==
  /\ answer.json
  /\ chart' = ChartOf(ParsedText(answer), appCalls[k].args.metric,
                      appCalls[k].args.operation)
  /\ appCalls' = Answered(appCalls, k)
  /\ UNCHANGED NotApp
  /\ UNCHANGED << datasetInfos, currentDataset, currentSchema, currentData, currentFilters,
                  currentSort, currentPage, totalCount, filterContainer, tableContainer,
                  pagination, clicks >>

\* applyFiltersBtn click, with what the inputs hold.
ApplyFiltersClick(entered) ==
  /\ clicks < MaxClicks
  /\ clicks' = clicks + 1
  /\ currentFilters' = collectFilters(filterContainer, entered, 1)
  /\ currentPage' = 0
  /\ queryData(appCalls, "applyFilters", currentDataset,
               collectFilters(filterContainer, entered, 1), currentSort, 0)
  /\ UNCHANGED NotApp
  /\ UNCHANGED << datasetInfos, currentDataset, currentSchema, currentData, currentSort,
                  totalCount, filterContainer, pagination, chart >>

\* clearFiltersBtn click
ClearFiltersClick ==
  /\ clicks < MaxClicks
  /\ clicks' = clicks + 1
  /\ currentFilters' = << >>
  /\ currentPage' = 0
  /\ queryData(appCalls, "clearFilters", currentDataset, << >>, currentSort, 0)
  /\ UNCHANGED NotApp
  /\ UNCHANGED << datasetInfos, currentDataset, currentSchema, currentData, currentSort,
                  totalCount, filterContainer, pagination, chart >>

\* The sort after a click on the header of `col`.
SortAfterClick(sort, col) ==
  IF sort # Null /\ sort.field = col
  THEN [field |-> col, direction |-> IF sort.direction = "asc" THEN "desc" ELSE "asc"]
  ELSE [field |-> col, direction |-> "asc"]

\* The column headers of the table; there is none while the table area shows
\* anything else.
TableHeaders ==
  IF tableContainer.kind = "table"
  THEN {tableContainer.columns[j] : j \in 1..Len(tableContainer.columns)}
  ELSE {}

\* Click on the header of column `col`.
SortClick(col) ==
  /\ clicks < MaxClicks
  /\ col \in TableHeaders
  /\ clicks' = clicks + 1
  /\ currentSort' = SortAfterClick(currentSort, col)
  /\ currentPage' = 0
  /\ queryData(appCalls, "sort", currentDataset, currentFilters,
               SortAfterClick(currentSort, col), 0)
  /\ UNCHANGED NotApp
  /\ UNCHANGED << datasetInfos, currentDataset, currentSchema, currentData, currentFilters,
                  totalCount, filterContainer, pagination, chart >>

\* prevPage click; a disabled button takes no click.
PrevPageClick ==
  /\ clicks < MaxClicks
  /\ pagination.shown
  /\ ~pagination.prevDisabled
  /\ clicks' = clicks + 1
  /\ IF currentPage > 0
     THEN /\ currentPage' = currentPage - 1
          /\ queryData(appCalls, "prevPage", currentDataset, currentFilters, currentSort,
                       currentPage - 1)
     ELSE UNCHANGED << currentPage, tableContainer, appCalls >>
  /\ UNCHANGED NotApp
  /\ UNCHANGED << datasetInfos, currentDataset, currentSchema, currentData, currentFilters,
                  currentSort, totalCount, filterContainer, pagination, chart >>

\* nextPage click: totalPages is the one the buttons were rendered with.
NextPageClick ==
  /\ clicks < MaxClicks
  /\ pagination.shown
  /\ ~pagination.nextDisabled
  /\ clicks' = clicks + 1
  /\ IF currentPage < pagination.totalPages - 1
     THEN /\ currentPage' = currentPage + 1
          /\ queryData(appCalls, "nextPage", currentDataset, currentFilters, currentSort,
                       currentPage + 1)
     ELSE UNCHANGED << currentPage, tableContainer, appCalls >>
  /\ UNCHANGED NotApp
  /\ UNCHANGED << datasetInfos, currentDataset, currentSchema, currentData, currentFilters,
                  currentSort, totalCount, filterContainer, pagination, chart >>

InitUI ==
  /\ event = NoEvent
  /\ handling = FALSE
  /\ nevents = 0
  /\ connected = FALSE
  /\ statusText = "Waiting for app..."
  /\ log = addLog(<< >>, "info", << "Host ready" >>)
  /\ requests = << >>
  /\ calls = << >>
  /\ posted = << >>
  /\ datasets = loadFrom(AppFiles, << >>)
  /\ rows = << >>
  /\ ecall = NoCall
  /\ InitApp

NextUI ==
  \/ AppConnected
  \/ \E k \in {k \in 1..Len(appCalls) : Pending(k, "list-datasets")} :
       \E answer \in {AnswerTo(appCalls[k])} : LoadDatasetsAnswered(k, answer)
  \/ \E value \in DatasetOptions : DatasetSelectChange(value)
  \/ \E k \in {k \in 1..Len(appCalls) : Pending(k, "get-schema")} :
       \E answer \in {AnswerTo(appCalls[k])} : LoadSchemaAnswered(k, answer)
  \/ \E k \in {k \in 1..Len(appCalls) : Pending(k, "query-data")} :
       \E answer \in {AnswerTo(appCalls[k])} : QueryDataAnswered(k, answer)
  \/ \E k \in {k \in 1..Len(appCalls) : Pending(k, "aggregate")} :
       \E answer \in {AnswerTo(appCalls[k])} : UpdateChartAnswered(k, answer)
  \/ \E entered \in Entered(filterContainer) : ApplyFiltersClick(entered)
  \/ ClearFiltersClick
  \/ \E col \in TableHeaders : SortClick(col)
  \/ PrevPageClick
  \/ NextPageClick

SpecUI == InitUI /\ [][NextUI]_vars

\* ------------------------------------------------------------------ claims

\* The responses posted for request number r, the backend calls issued for it.
ResponsesTo(r) == {i \in 1..Len(posted) : posted[i].req = r}
CallsOf(r) == {k \in 1..Len(calls) : calls[k].req = r}

IsToolCall(m) == Has(m, "method") /\ m.method = "tools/call"

\* The handler of request number r has run to its end.
Finished(r) ==
  IsToolCall(requests[r]) /\ Has(requests[r], "params")
    => \E k \in CallsOf(r) : calls[k].resumed

\* The backend call k failed: the fetch was rejected or the body is no JSON.
BackendFailed(k) ==
  \/ calls[k].state = "failed"
  \/ calls[k].state = "responded" /\ ~calls[k].response.json

\* C1 as stated: every request is answered once its handler has ended, with
\* its own id, and no id ever receives two responses.
C1_NoIdAnsweredTwice ==
  /\ \A r \in 1..Len(requests) : Finished(r) => ResponsesTo(r) # {}
  /\ \A i, j \in 1..Len(posted) : i # j => posted[i].data.id # posted[j].data.id

\* C1 (amended): every response answers a request that was received and
\* carries that request's id; no request is answered twice, a request whose
\* handler has ended (whatever its method, result or throw) is answered exactly
\* once, and its handler issued at most one backend call.  Hence an id
\* receives as many responses as requests carrying it were received, never
\* more.
C1_OneResponsePerRequest ==
  /\ \A i \in 1..Len(posted) :
       /\ posted[i].req \in 1..Len(requests)
       /\ posted[i].data.id = requests[posted[i].req].id
  /\ \A r \in 1..Len(requests) :
       /\ Cardinality(ResponsesTo(r)) <= 1
       /\ Cardinality(CallsOf(r)) <= 1
       /\ Finished(r) => Cardinality(ResponsesTo(r)) = 1
  /\ \A id \in Ids :
       Cardinality({i \in 1..Len(posted) : posted[i].data.id = id})
         <= Cardinality({r \in 1..Len(requests) : requests[r].id = id})

\* Two requests that carry the same id have both been answered, one of them
\* with a result and one with an error after its backend call failed.
C1_Witness ==
  \E r1, r2 \in 1..Len(requests) :
    /\ r1 # r2
    /\ requests[r1].id = requests[r2].id
    /\ \E i \in ResponsesTo(r1) : Has(posted[i].data, "result")
    /\ \E k \in CallsOf(r2) : calls[k].resumed /\ BackendFailed(k)
    /\ \E i \in ResponsesTo(r2) : Has(posted[i].data, "error")

\* C2: handleMessage on an event whose source is not the app frame's window
\* changes nothing of the host and nothing of the server: no response, no
\* backend call, no log entry, no status change, whatever the message.
C2_ForeignSourceDropped ==
  [][(handling /\ ~handling' /\ event.source # AppFrame)
       => UNCHANGED << connected, statusText, log, requests, calls, posted, datasets >>]_vars

\* A well-formed tools/call request from another window has been handled and
\* left no trace.
C2_Witness ==
  /\ ~handling
  /\ event.source = OtherWindow
  /\ IsToolCall(event.data) /\ Has(event.data, "id") /\ event.data.jsonrpc = "2.0"
  /\ requests = << >> /\ calls = << >> /\ posted = << >>

\* C3: a response to a tools/call request is posted only once the backend
\* call made for that request has completed; it carries the id of that
\* request and, when the call succeeded, the body the server returned for the
\* tool and arguments of that very request; and it goes to the app frame.
C3_ResponsePairedWithOwnCall ==
  \A i \in 1..Len(posted) :
    LET r == posted[i].req
        m == requests[r]
    IN /\ posted[i].to = AppFrame
       /\ (IsToolCall(m) /\ Has(m, "params")) =>
            \E k \in CallsOf(r) :
              /\ calls[k].state # "pending"
              /\ posted[i].data.id = m.id
              /\ ~BackendFailed(k) =>
                   /\ Has(posted[i].data, "result")
                   /\ ToString(posted[i].data.result) = ToString(calls[k].response.body)
                   /\ posted[i].data.result = calls[k].response.body
                   /\ posted[i].data.result
                        = Express(datasets, calls[k].name, calls[k].args).body
                   /\ calls[k].name = m.params.name

\* Two tools/call requests with distinct ids were in flight together, their
\* backend calls completed in the reverse order, and both are answered.
C3_Witness ==
  /\ Len(calls) >= 2
  /\ requests[calls[1].req].id # requests[calls[2].req].id
  /\ ~BackendFailed(1) /\ ~BackendFailed(2)
  /\ calls[1].resumed /\ calls[2].resumed
  /\ \E i \in ResponsesTo(calls[1].req), j \in ResponsesTo(calls[2].req) : j < i
  /\ calls[1].response.body # calls[2].response.body

\* C4: every request handleMessage has taken is eventually answered, given
\* that every backend call eventually resolves or rejects.
C4_EveryRequestAnswered ==
  \A r \in 1..MaxEvents : (Len(requests) >= r) ~> (ResponsesTo(r) # {})

\* A tools/call request whose backend call was rejected has been answered.
C4_Witness ==
  \E k \in 1..Len(calls) :
    calls[k].state = "failed" /\ calls[k].resumed /\ ResponsesTo(calls[k].req) # {}

\* What the handler of request r threw, "" when it threw nothing so far.
HandlerFailure(r) ==
  IF ~IsToolCall(requests[r]) THEN ""
  ELSE IF ~Has(requests[r], "params") THEN ParamsTypeError
  ELSE IF \E k \in CallsOf(r) : calls[k].state = "failed" THEN FetchTypeError
  ELSE IF \E k \in CallsOf(r) : BackendFailed(k) THEN JsonSyntaxError
  ELSE ""

\* C5: every response holds exactly one of result and error; it is an error
\* response, with code -32000 and the string form of the failure as message,
\* if and only if the handler failed (the backend call failed, or reading the
\* request threw), and a result response otherwise.
C5_ResultXorError ==
  \A i \in 1..Len(posted) :
    LET d == posted[i].data
        failure == HandlerFailure(posted[i].req)
    IN /\ Has(d, "result") # Has(d, "error")
       /\ Has(d, "error") <=> failure # ""
       /\ Has(d, "error") => d.error = [code |-> -32000, message |-> failure]

\* Both kinds of failure have been answered with an error, and a tool
\* envelope that reports isError with a result.
C5_Witness ==
  /\ \E i \in 1..Len(posted) :
       Has(posted[i].data, "error") /\ posted[i].data.error.message = ParamsTypeError
  /\ \E i \in 1..Len(posted) :
       Has(posted[i].data, "error") /\ posted[i].data.error.message = JsonSyntaxError
  /\ \E i \in 1..Len(posted) : Has(posted[i].data, "result")

\* C6: handleMessage on a message of the app frame that has no id answers
\* nothing and calls no backend, whatever the method: it leaves everything
\* but the log as it is.
C6_NotificationOnlyObserved ==
  [][(handling /\ ~handling' /\ event.source = AppFrame
        /\ ~Has(event.data, "primitive") /\ ~Has(event.data, "id"))
       => UNCHANGED << connected, statusText, requests, calls, posted, datasets >>]_vars

\* A tools/call notification of the app frame has been handled: it is in the
\* log, and nothing was called or answered.
C6_Witness ==
  /\ ~handling
  /\ event.source = AppFrame
  /\ IsToolCall(event.data) /\ ~Has(event.data, "id")
  /\ log[1] = [type |-> "info", data |-> << "Notification: ", "tools/call" >>]
  /\ calls = << >> /\ posted = << >>

KnownMethods == {"ui/initialize", "tools/call", "ping"}

\* C7: a request whose method is none of ui/initialize, tools/call, ping has
\* exactly one response, with the id of the request and the result {} and
\* no error, and no backend call.
C7_UnknownMethodEmptyResult ==
  \A r \in 1..Len(requests) :
    (Has(requests[r], "method") /\ requests[r].method \notin KnownMethods) =>
      /\ Cardinality(ResponsesTo(r)) = 1
      /\ \A i \in ResponsesTo(r) :
           posted[i].data = [jsonrpc |-> "2.0", id |-> requests[r].id,
                             result |-> EmptyObject]
      /\ CallsOf(r) = {}

C7_Witness ==
  \E r \in 1..Len(requests) :
    /\ requests[r].method = "resources/list"
    /\ \E i \in ResponsesTo(r) : posted[i].data.result = EmptyObject

\* C8 as stated: a backend call is issued only for a tools/call request that
\* came after a ui/initialize request had been handled.
C8_NoDispatchBeforeInitialize ==
  \A k \in 1..Len(calls) :
    \E r \in 1..(calls[k].req - 1) :
      Has(requests[r], "method") /\ requests[r].method = "ui/initialize"

\* C9 as stated: every tools/call request causes exactly one backend call.
C9_EveryToolCallOneBackendCall ==
  \A r \in 1..Len(requests) :
    IsToolCall(requests[r]) => Cardinality(CallsOf(r)) = 1

\* C9 (amended): every tools/call request that carries params causes exactly
\* one backend call, for the tool name and the arguments of that request ({}
\* when it has none), also when the call fails; a tools/call request without
\* params causes none; and every backend call is caused by one such request.
C9_OneBackendCallPerToolCall ==
  /\ \A r \in 1..Len(requests) :
       IF IsToolCall(requests[r]) /\ Has(requests[r], "params")
       THEN /\ Cardinality(CallsOf(r)) = 1
            /\ \A k \in CallsOf(r) :
                 /\ calls[k].name = requests[r].params.name
                 /\ calls[k].args = IF Has(requests[r].params, "arguments")
                                    THEN requests[r].params.arguments
                                    ELSE EmptyObject
       ELSE CallsOf(r) = {}
  /\ \A k \in 1..Len(calls) : calls[k].req \in 1..Len(requests)

\* A tools/call request whose backend call failed has been answered, and
\* still has exactly one backend call; so has one without arguments.
C9_Witness ==
  /\ \E k \in 1..Len(calls) :
       calls[k].state = "failed" /\ calls[k].resumed /\ CallsOf(calls[k].req) = {k}
  /\ \E k \in 1..Len(calls) : calls[k].args = EmptyObject

DatasetTools == {"get-schema", "query-data", "aggregate", "export-data"}

\* The call names a dataset that is not in the store, or none.
UnknownDataset(c) ==
  ~(Has(c.args, "dataset") /\ \E i \in 1..Len(datasets) : datasets[i].name = c.args.dataset)

\* C10: get-schema, query-data, aggregate and export-data answer a dataset
\* name that is not in the store, or a missing one, with an envelope that has
\* isError true and an error payload, without calling the query engine; and
\* the relay posts that envelope as the result of a response without error.
C10_UnknownDatasetIsErrorEnvelope ==
  \A k \in 1..Len(calls) :
    (calls[k].name \in DatasetTools /\ UnknownDataset(calls[k])
       /\ calls[k].state = "responded") =>
      LET resp == calls[k].response
      IN /\ resp.json
         /\ Has(resp.body, "isError") /\ resp.body.isError = TRUE
         /\ Has(resp.body.content[1].text, "error")
         /\ resp.engine = {}
         /\ calls[k].resumed =>
              \E i \in ResponsesTo(calls[k].req) :
                /\ ~Has(posted[i].data, "error")
                /\ Has(posted[i].data, "result")
                /\ posted[i].data.result = resp.body

\* An aggregate call without dataset and a get-schema call for an unknown
\* dataset have both been answered.
C10_Witness ==
  /\ \E k \in 1..Len(calls) :
       calls[k].name = "aggregate" /\ ~Has(calls[k].args, "dataset") /\ calls[k].resumed
  /\ \E k \in 1..Len(calls) :
       calls[k].name = "get-schema" /\ Has(calls[k].args, "dataset")
         /\ UnknownDataset(calls[k]) /\ calls[k].resumed

\* ---- claims about the query engine (SpecEngine)

\* A list of filters as the data model has them: each an object whose
\* operator is one of the eight, operator `in` with a sequence as value, a
\* range operator with a value that is no sequence.
WellFormedFilters(filters) ==
  /\ filters.t = "array"
  /\ \A j \in 1..Len(filters.v) :
       LET f == filters.v[j]
       IN /\ f # Null
          /\ Has(f, "field") /\ Has(f, "operator")
          /\ f.operator \in Operators
          /\ f.operator = "in" => (Has(f, "value") /\ f.value.t = "array")
          /\ f.operator \in {"gt", "gte", "lt", "lte"} =>
               ~(Has(f, "value") /\ f.value.t = "array")

\* x is below y: two strings by their characters, anything else by the
\* numbers the two coerce to, when both coerce to one.
Below(x, y) ==
  IF x.t = "string" /\ y.t = "string" THEN StrLess(x.v, y.v)
  ELSE /\ ToNumber(x).t = "number" /\ ToNumber(y).t = "number"
       /\ ToNumber(x).v < ToNumber(y).v

\* x and y can be compared at all.
Ranked(x, y) ==
  \/ x.t = "string" /\ y.t = "string"
  \/ ToNumber(x).t = "number" /\ ToNumber(y).t = "number"

\* The record satisfies the filter (section 3 of the specification).
Satisfies(row, f) ==
  LET x == IF f.field \in DOMAIN row THEN row[f.field] ELSE Undefined
      y == IF "value" \in DOMAIN f THEN f.value ELSE Undefined
      lx == ToLowerCase(StringOf(x))
      ly == ToLowerCase(StringOf(y))
  IN CASE f.operator = "eq" -> y.t # "array" /\ x = y
       [] f.operator = "ne" -> y.t = "array" \/ x # y
       [] f.operator = "gt" -> Below(y, x)
       [] f.operator = "lt" -> Below(x, y)
       [] f.operator = "gte" -> Ranked(x, y) /\ ~Below(x, y)
       [] f.operator = "lte" -> Ranked(x, y) /\ ~Below(y, x)
       [] f.operator = "contains" ->
            \E from \in 1..(Len(lx) + 1) :
              /\ from + Len(ly) - 1 <= Len(lx)
              /\ \A i \in 1..Len(ly) : lx[from + i - 1] = ly[i]
       [] f.operator = "in" -> x \in {f.value.v[i] : i \in 1..Len(f.value.v)}

\* C11: for a list of well-formed filters, applyFilters returns, without
\* throwing, exactly the records of its input that satisfy every filter of
\* the list: each of them once, in the order of the input, none altered and
\* none added.
C11_FilterSelectsSatisfying ==
  (ecall.op = "applyFilters" /\ WellFormedFilters(ecall.filters)) =>
    LET keep == {i \in 1..Len(rows) :
                   \A j \in 1..Len(ecall.filters.v) : Satisfies(rows[i], ecall.filters.v[j])}
        nth(p) == CHOOSE i \in keep : Cardinality({j \in keep : j < i}) = p - 1
    IN /\ ~ecall.result.threw
       /\ Len(ecall.result.value) = Cardinality(keep)
       /\ \A p \in 1..Cardinality(keep) : ecall.result.value[p] = rows[nth(p)]

\* Two filters, one of them with operator `in`, were applied to three
\* records of which the first and the last satisfy both and the second does
\* not satisfy the second filter.
C11_Witness ==
  /\ ecall.op = "applyFilters" /\ WellFormedFilters(ecall.filters)
  /\ Len(ecall.filters.v) = 2 /\ Len(rows) = 3
  /\ ecall.filters.v[2].operator = "in"
  /\ Satisfies(rows[2], ecall.filters.v[1])
  /\ ~ecall.result.threw
  /\ Len(ecall.result.value) = 2
  /\ ecall.result.value[1].id = 1 /\ ecall.result.value[2].id = 3

\* The sort key x comes strictly before y in ascending order: two numbers by
\* value, two strings by locale-aware comparison; a key that is missing or
\* of another type comes before and after nothing.
KeyBefore(x, y) ==
  \/ x.t = "number" /\ y.t = "number" /\ x.v < y.v
  \/ x.t = "string" /\ y.t = "string" /\ localeCompare(x.v, y.v) < 0

\* C12 as stated: for direction asc and desc, sortData returns a permutation
\* of its input in which no record comes after one that the direction puts
\* behind it, records with equal sort keys (two missing keys are equal) keep
\* their order of the input, and the input array is left as it was.
C12_SortOrderedStablePermutation ==
  (/\ ecall.op = "sortData"
   /\ Has(ecall.sort, "field") /\ Has(ecall.sort, "direction")) =>
    LET out == ecall.result
        key(r) == Get(r, ecall.sort.field)
    IN /\ Len(out) = Len(rows)
       /\ \A i \in 1..Len(rows) : \E p \in 1..Len(out) : out[p] = rows[i]
       /\ \A p, q \in 1..Len(out) :
            p < q =>
              /\ ecall.sort.direction = "asc" => ~KeyBefore(key(out[q]), key(out[p]))
              /\ ecall.sort.direction = "desc" => ~KeyBefore(key(out[p]), key(out[q]))
              /\ key(out[p]) = key(out[q]) => out[p].id < out[q].id
       /\ \A i \in 1..Len(rows) : rows[i].id = i

\* The string form of the groupBy value of record i of the array aggregated.
GroupKey(i) == StringOf(Get(rows[i], ecall.groupBy))

\* The records that belong to the group.
Members(group) == {i \in 1..Len(rows) : GroupKey(i) = group}

\* The sum of the group values of the first n entries of the result.
RECURSIVE ValueSum(_)
ValueSum(n) == IF n = 0 THEN 0 ELSE ecall.result[n].value.v + ValueSum(n - 1)

\* C15: the result of aggregateData has exactly one entry for each distinct
\* string form of the groupBy value among the records and no other entry;
\* with operation count the value of an entry is the number of records with
\* that string form, so that every record is counted in exactly one group
\* and the values add up to the number of records.
C15_GroupsPartitionInput ==
  ecall.op = "aggregateData" =>
    LET res == ecall.result
    IN /\ {res[p].group : p \in 1..Len(res)} = {GroupKey(i) : i \in 1..Len(rows)}
       /\ \A p, q \in 1..Len(res) : p # q => res[p].group # res[q].group
       /\ ecall.operation = "count" =>
            /\ \A p \in 1..Len(res) :
                 res[p].value = Whole(Cardinality(Members(res[p].group)))
            /\ ValueSum(Len(res)) = 100 * Len(rows)

\* Three records were counted by a field that is the number 1 in one, the
\* string "1" in another and something else in the third: two groups, the
\* group "1" with two records.
C15_Witness ==
  /\ ecall.op = "aggregateData" /\ ecall.operation = "count"
  /\ Len(rows) = 3 /\ Len(ecall.result) = 2
  /\ \E i, j \in 1..3 :
       /\ Get(rows[i], ecall.groupBy) = Whole(1)
       /\ Get(rows[j], ecall.groupBy) = Str(<< "1" >>)
  /\ ecall.result[1] = [group |-> << "1" >>, value |-> Whole(2)]

\* The metric of record i as a number, in hundredths: a number is itself, a
\* string that reads as a number is that number, and anything else (another
\* string, null, an absent field) counts as 0.
Coerced(i) ==
  LET x == Get(rows[i], ecall.metric)
  IN IF x.t = "number" THEN x.v
     ELSE IF x.t = "string" /\ StringToNumber(x.v).t = "number" THEN StringToNumber(x.v).v
     ELSE 0

\* The sum of the coerced metrics of the records of `members` among the
\* first n.
RECURSIVE MetricSum(_, _)
MetricSum(members, n) ==
  IF n = 0 THEN 0
  ELSE (IF n \in members THEN Coerced(n) ELSE 0) + MetricSum(members, n - 1)

\* C16: for each of sum, avg, count, min and max, the value of every entry
\* of the result is that operation over the coerced metrics of the records of
\* the group, rounded to two decimals: for avg, a hundredth nearest to the
\* quotient of the sum by the number of records of the group.
C16_ValueIsOperationOverGroup ==
  (ecall.op = "aggregateData" /\ ecall.operation \in Operations) =>
    \A p \in 1..Len(ecall.result) :
      LET members == Members(ecall.result[p].group)
          n == Cardinality(members)
          sum == MetricSum(members, Len(rows))
          value == ecall.result[p].value
      IN /\ value.t = "number"
         /\ ecall.operation = "sum" => value.v = sum
         /\ ecall.operation = "count" => value.v = 100 * n
         /\ ecall.operation = "min" =>
              /\ \E i \in members : value.v = Coerced(i)
              /\ \A i \in members : value.v <= Coerced(i)
         /\ ecall.operation = "max" =>
              /\ \E i \in members : value.v = Coerced(i)
              /\ \A i \in members : value.v >= Coerced(i)
         /\ ecall.operation = "avg" =>
              /\ 2 * n * value.v <= 2 * sum + n
              /\ 2 * n * value.v >= 2 * sum - n

\* The average of three metrics of one group, one of them no number and
\* counted as 0, is not a multiple of a hundredth and was rounded: -3.25, 2
\* and "a" give -0.42.
C16_Witness ==
  /\ ecall.op = "aggregateData" /\ ecall.operation = "avg"
  /\ Len(rows) = 3 /\ Len(ecall.result) = 1
  /\ \E i \in 1..3 : Get(rows[i], ecall.metric) = Str(<< "a" >>)
  /\ \E i \in 1..3 : Get(rows[i], ecall.metric) = Num(-325)
  /\ ecall.result[1].value = Num(-42)

\* ---- claims about the routes (SpecServer)

\* query-data was called for a dataset of the store and answered with a page.
QueryAnswered ==
  /\ ecall.op = "POST" /\ ecall.name = "query-data"
  /\ ecall.response.json
  /\ ~Has(ecall.response.body, "isError")

\* The payload of the answer, and the offset and limit of the call.
Payload == ecall.response.body.content[1].text
OffsetArg == IF Has(ecall.args, "offset") THEN ecall.args.offset ELSE 0
LimitArg == IF Has(ecall.args, "limit") THEN ecall.args.limit ELSE 100

\* The number of records of the dataset of the call that satisfy its filters.
MatchCount ==
  LET data == MapGet(datasets, ecall.args.dataset).data
      filters == IF Has(ecall.args, "filters") THEN ecall.args.filters.v ELSE << >>
  IN Cardinality({i \in 1..Len(data) :
                    \A j \in 1..Len(filters) : Satisfies(data[i], filters[j])})

\* C13 as stated: for all integers offset and limit the page of query-data
\* has hasMore = (offset + limit < totalCount) and at most limit records.
C13_PageWithinLimit ==
  QueryAnswered =>
    /\ Payload.totalCount = MatchCount
    /\ Payload.hasMore = (OffsetArg + LimitArg < Payload.totalCount)
    /\ Len(Payload.data) <= LimitArg

\* C13 (amended): for all integers offset and limit, totalCount is the number
\* of records after filtering and hasMore = (offset + limit < totalCount);
\* and whenever limit is not negative the page has at most limit records.
C13_HasMoreAndPageSize ==
  QueryAnswered =>
    /\ Payload.totalCount = MatchCount
    /\ Payload.hasMore = (OffsetArg + LimitArg < Payload.totalCount)
    /\ Payload.offset = OffsetArg /\ Payload.limit = LimitArg
    /\ LimitArg >= 0 => Len(Payload.data) <= LimitArg

\* A filtered and sorted query with a negative offset returned a full page
\* of two records out of three, with more to come by the formula.
C13_Witness ==
  /\ QueryAnswered
  /\ Has(ecall.args, "sort")
  /\ OffsetArg = -3 /\ LimitArg = 2
  /\ Payload.totalCount = 3 /\ Len(Payload.data) = 2 /\ Payload.hasMore

\* C14 as stated: query-data with an offset at or beyond totalCount, a
\* negative offset, or a limit that is zero or negative succeeds and returns
\* an empty page.
C14_OutOfRangeGivesEmptyPage ==
  (/\ ecall.op = "POST" /\ ecall.name = "query-data"
   /\ Has(ecall.args, "offset") /\ Has(ecall.args, "limit")) =>
    /\ QueryAnswered
    /\ (OffsetArg >= Payload.totalCount \/ OffsetArg < 0 \/ LimitArg <= 0)
         => Payload.data = << >>

\* The call reached one of the routes that run the query engine, for a
\* dataset of the store, and its filters, if given, are a list of filters.
EngineRouteCalled ==
  /\ ecall.op = "POST"
  /\ ecall.name \in {"query-data", "export-data", "aggregate"}
  /\ DatasetFound(datasets, ecall.args)
  /\ Has(ecall.args, "filters") => ecall.args.filters.t = "array"

\* C17 as stated: whatever the filters, the sort spec and the aggregation
\* spec of a call, the query engine returns instead of throwing, so that the
\* route answers with JSON (a result) and not with the 500 page that the
\* host relays as an RPC error.
C17_EngineNeverFails ==
  EngineRouteCalled => ecall.response.json

\* The store as the startup load leaves it.
LoadedStore == loadFrom(DatasetFiles \o << NotesFile >>, << >>)

IsListDatasets(r) ==
  /\ IsToolCall(requests[r]) /\ Has(requests[r], "params")
  /\ Has(requests[r].params, "name") /\ requests[r].params.name = "list-datasets"

\* C19: a tools/call request for list-datasets with id i gets one response,
\* never more, and exactly one once its handler has ended; the response
\* carries id i, and when the backend call was answered its payload lists
\* every dataset of the store exactly once, under names that are all
\* different, each with recordCount the number of records of that dataset.
C19_ListDatasetsListsStore ==
  \A r \in 1..Len(requests) :
    IsListDatasets(r) =>
      /\ Cardinality(ResponsesTo(r)) <= 1
      /\ \A i \in ResponsesTo(r) : posted[i].data.id = requests[r].id
      /\ \A k \in CallsOf(r) :
           calls[k].resumed =>
             /\ Cardinality(ResponsesTo(r)) = 1
             /\ ~BackendFailed(k) =>
                  \A i \in ResponsesTo(r) :
                    /\ Has(posted[i].data, "result")
                    /\ ~Has(posted[i].data.result, "isError")
                    /\ LET list == posted[i].data.result.content[1].text
                       IN /\ \A d \in 1..Len(datasets) :
                               Cardinality({j \in 1..Len(list) :
                                              list[j].name = datasets[d].name}) = 1
                          /\ \A j1, j2 \in 1..Len(list) :
                               j1 # j2 => list[j1].name # list[j2].name
                          /\ \A j \in 1..Len(list) :
                               \E d \in 1..Len(datasets) :
                                 /\ datasets[d].name = list[j].name
                                 /\ list[j].recordCount = Len(datasets[d].data)

\* A list-datasets request has been answered with a list of as many entries
\* as the store has datasets, more than one, after another request with the
\* same id was answered too.
C19_Witness ==
  \E r \in 1..Len(requests) :
    /\ IsListDatasets(r)
    /\ \E r2 \in 1..Len(requests) :
         r2 # r /\ requests[r2].id = requests[r].id /\ ResponsesTo(r2) # {}
    /\ \E i \in ResponsesTo(r) :
         /\ Has(posted[i].data, "result")
         /\ Len(posted[i].data.result.content[1].text) = Len(datasets)
         /\ Len(datasets) > 1

\* ---- claims about export-data (SpecServer)

\* export-data was called with format json, given or by default, and
\* answered with the content.
ExportedJson ==
  /\ ecall.op = "POST" /\ ecall.name = "export-data"
  /\ Has(ecall.args, "format") => ecall.args.format = "json"
  /\ ecall.response.json
  /\ ~Has(ecall.response.body, "isError")

\* The answer of query-data for the dataset and the filters of the call,
\* without sort, offset and limit (the page is then the first 100 records).
SameQuery ==
  Express(datasets, "query-data",
          [k \in (DOMAIN ecall.args) \ {"format"} |-> ecall.args[k]])

\* C20: for any dataset and filter list, JSON.parse of the content that
\* export-data returns with format json gives the records that query-data
\* returns for the same dataset and filters without sort on a page that
\* covers the whole result, with the same fields and values and in the same
\* order, and recordCount is query-data's totalCount.
C20_ExportParsesToQueryPage ==
  ExportedJson =>
    /\ SameQuery.json /\ ~Has(SameQuery.body, "isError")
    /\ LET page == SameQuery.body.content[1].text
       IN /\ Len(page.data) = page.totalCount
          /\ JsonParse(Payload.content) = page.data
          /\ Payload.recordCount = page.totalCount
          /\ Payload.format = "json"

\* The exported records hold a string with a quote, one with a backslash, a
\* comma and a line feed, a number with a fraction, a null and a record
\* without one of the fields, and the text writes the line feed as an escape.
C20_Witness ==
  /\ ExportedJson
  /\ ecall.args.dataset = "notes"
  /\ Payload.recordCount = 3
  /\ JsonParse(Payload.content) = NotesFile.data
  /\ \E i \in 1..(Len(Payload.content) - 1) :
       Payload.content[i] = "\\" /\ Payload.content[i + 1] = "n"

\* ---- claims about argument checking (SpecServer)

\* A tool was called without one of the arguments its inputSchema requires.
LacksRequired ==
  /\ ecall.op = "POST" /\ ecall.name \in ToolNames
  /\ \E k \in RequiredArguments(ecall.name) : ~Has(ecall.args, k)

\* C21 as stated: a tool call that lacks a required argument is rejected as
\* malformed (an error envelope) before the query engine is invoked.
C21_MissingArgumentRejected ==
  LacksRequired =>
    /\ ecall.response.json
    /\ Has(ecall.response.body, "isError")
    /\ ecall.response.engine = {}

\* ---- claims about unknown operators, the order of groups and empty stats
\* (SpecEngine)

\* The filter is an object whose operator is none of the eight.
UnknownOperator(filter) ==
  filter # Null /\ KeyArg(filter, "operator") \notin Operators

\* C22: a filter whose operator is not one of the eight known operators is
\* always true: a filter list with such filters added gives the result that
\* applyFilters gives for the list without them, and if the call throws then
\* so does the call without them.
C22_UnknownOperatorPasses ==
  (ecall.op = "applyFilters" /\ ecall.filters.t = "array") =>
    LET others == SelectSeq(ecall.filters.v, LAMBDA f : ~UnknownOperator(f))
    IN ecall.result = applyFilters(rows, Arr(others))

\* A filter with an unknown operator stood before a filter that two of three
\* records fail, and the one record that satisfies it was returned.
C22_Witness ==
  /\ ecall.op = "applyFilters" /\ ecall.filters.t = "array"
  /\ Len(ecall.filters.v) = 2 /\ Len(rows) = 3
  /\ UnknownOperator(ecall.filters.v[1])
  /\ ~UnknownOperator(ecall.filters.v[2])
  /\ ~ecall.result.threw
  /\ Len(ecall.result.value) = 1

\* The place in the input of the first record of the group.
FirstMember(group) == CHOOSE i \in Members(group) : \A j \in Members(group) : i <= j

\* C23: aggregateData returns its groups ordered by value descending, and
\* groups with equal value appear in the order in which their group key was
\* first encountered in the input records.
C23_GroupsByValueThenFirstSeen ==
  ecall.op = "aggregateData" =>
    \A i, j \in 1..Len(ecall.result) :
      i < j =>
        /\ ecall.result[i].value.v >= ecall.result[j].value.v
        /\ ecall.result[i].value.v = ecall.result[j].value.v
             => FirstMember(ecall.result[i].group) < FirstMember(ecall.result[j].group)

\* Three groups of one record each: the group of the last record has the
\* largest value and comes first, the groups of the first and of the second
\* record have equal values and follow in that order.
C23_Witness ==
  /\ ecall.op = "aggregateData" /\ ecall.operation = "sum"
  /\ Len(rows) = 3 /\ Len(ecall.result) = 3
  /\ ecall.result[1].value.v > ecall.result[2].value.v
  /\ ecall.result[2].value.v = ecall.result[3].value.v
  /\ Members(ecall.result[1].group) = {3}
  /\ Members(ecall.result[2].group) = {1}
  /\ Members(ecall.result[3].group) = {2}

\* getFieldStats was called for a numeric field of which no record holds a
\* value that Number(...) makes a number.
NoQualifyingValue ==
  /\ ecall.op = "getFieldStats" /\ ecall.type = "number"
  /\ \A i \in 1..Len(rows) : ToNumber(Get(rows[i], ecall.field)).t = "NaN"

\* C24 as stated: when a numeric field has no qualifying value, getFieldStats
\* returns an explicit absent value for min, max and avg, and neither an
\* infinity nor not-a-number.
C24_EmptyStatsAreAbsent ==
  NoQualifyingValue =>
    \A stat \in {"min", "max", "avg"} :
      /\ Has(ecall.result, stat)
      /\ ecall.result[stat].t \in {"null", "undefined"}

\* The query-data calls the app has made, by their number.
QueriesMade == {k \in 1..Len(appCalls) : appCalls[k].name = "query-data"}

\* The query-data call made last.
LatestQuery == CHOOSE k \in QueriesMade : \A j \in QueriesMade : j <= k

\* The app holds and shows the records and the count of this result.
Shows(result) ==
  /\ currentData = result.data
  /\ totalCount = result.totalCount
  /\ tableContainer.kind = "table" => tableContainer.rows = result.data

\* C25 as stated: once no query-data call is in flight, the rows shown and
\* totalCount are those of the answer to the query-data call made last; the
\* answer to an earlier call never replaces them.
C25_LatestQueryShown ==
  (QueriesMade # {} /\ \A k \in QueriesMade : appCalls[k].state = "done")
    => Shows(ParsedText(AnswerTo(appCalls[LatestQuery])))

\* C26 as stated: every query-data call the app makes has limit 50 and an
\* offset that is a page number from 0 times 50, and the offset is 0 or less
\* than the totalCount of the result set that call queries.
C26_OffsetWithinResult ==
  \A k \in QueriesMade :
    /\ appCalls[k].args.limit = 50
    /\ appCalls[k].args.offset >= 0
    /\ appCalls[k].args.offset % 50 = 0
    /\ \/ appCalls[k].args.offset = 0
       \/ appCalls[k].args.offset < ParsedText(AnswerTo(appCalls[k])).totalCount

\* C27 as stated: the query a change of dataset, of filters or of sort
\* triggers is issued with currentPage reset to 0, and the query a change of
\* dataset triggers is issued with currentSort and currentFilters cleared as
\* well: it carries no filter, no sort and no page offset from before.
C27_ChangeQueriesFromReset ==
  \A k \in QueriesMade :
    /\ appCalls[k].by \in {"datasetSelect", "applyFilters", "clearFilters", "sort"}
         => appCalls[k].args.offset = 0
    /\ appCalls[k].by = "datasetSelect"
         => /\ appCalls[k].args.sort = Null
            /\ appCalls[k].args.filters = Arr(<< >>)

====
